---- MODULE Spec2Model ----
(***************************************************************************)
(* A model of the Cloud Resource Manager client: the Resource facade      *)
(* (createProject, getProjects, operation, project) and the Project       *)
(* facade (getIamPolicy, ...).  Every public method is one synchronous    *)
(* dispatch that issues one request; the request layer later completes    *)
(* the request with (err, resp) and the method's completion handler runs. *)
(***************************************************************************)
EXTENDS Integers, Sequences, FiniteSets, TLC

VARIABLES
  calls,     \* every invocation made so far, with its arguments and outcome
  requests,  \* every request handed to the request layer (this.request)
  handles    \* every Project / Operation object constructed so far

vars == <<calls, requests, handles>>

(***************************************************************************)
(* Bounds of the model.                                                    *)
(***************************************************************************)
MaxCalls == 2

(***************************************************************************)
(* JavaScript values.  An object is a function from its own keys to      *)
(* values, so a missing field and an empty field are different.           *)
(***************************************************************************)
Undefined == [type |-> "undefined"]
Null == [type |-> "null"]
Str(s) == [type |-> "string", v |-> s]
Obj(f) == [type |-> "object", f |-> f]
Fn(n) == [type |-> "function", v |-> n]
Err(m) == [type |-> "error", v |-> m]
Handle(i) == [type |-> "handle", h |-> i]
Arr(s) == [type |-> "array", items |-> s]
Promise == [type |-> "promise"]
Throw(m) == [type |-> "throw", v |-> m]

\* typeof v
TypeOf(v) ==
  CASE v.type \in {"null", "error", "handle", "array", "promise"} -> "object"
    [] OTHER -> v.type

\* JavaScript truthiness: undefined, null and '' are falsy
Truthy(v) ==
  ~ \/ v.type \in {"undefined", "null"}
    \/ (v.type = "string" /\ v.v = "")

\* a || b
OrElse(a, b) == IF Truthy(a) THEN a ELSE b

\* o.k for a plain object o
Get(o, k) == IF k \in DOMAIN o THEN Str(o[k]) ELSE Undefined

\* the own fields of a value handed to Object.assign (null / undefined: none)
Fields(v) == IF v.type = "object" THEN v.f ELSE <<>>

\* Object.assign({}, a, b) on the fields of a and b
ObjectAssignReversed(a, b) ==
  [k \in DOMAIN a \cup DOMAIN b |-> IF k \in DOMAIN a THEN a[k] ELSE b[k]]

ObjectAssign(a, b) ==
  [k \in DOMAIN a \cup DOMAIN b |-> IF k \in DOMAIN b THEN b[k] ELSE a[k]]

\* the i-th actual argument of a call
Arg(args, i) == IF i <= Len(args) THEN args[i] ELSE Undefined

(***************************************************************************)
(* The two Resource clients of the model: r1 is constructed without a     *)
(* default project id, r2 with options.projectId = 'pd'.                  *)
(***************************************************************************)
Resources == {"r1", "r2"}

projectId(r) == IF r = "r2" THEN Str("pd") ELSE Undefined

(***************************************************************************)
(* promisifyAll: a wrapped method called without a trailing function      *)
(* returns a promise and calls the original with a settling callback      *)
(* appended; the methods named in `exclude` stay as they are.             *)
(***************************************************************************)
PromisifyExcludeNone == {}

PromisifyExclude == {"operation", "project"}

\* promisifyAll(Resource, {exclude}) and promisifyAll(Project)
Promisified(m) == m \notin PromisifyExclude

PromiseCallback == Fn("promise")

HasCallback(args) == Len(args) > 0 /\ TypeOf(args[Len(args)]) = "function"

\* the arguments the original method is applied to
InnerArgs(m, args) ==
  IF Promisified(m) /\ ~HasCallback(args) THEN Append(args, PromiseCallback)
  ELSE args

\* what the wrapper itself returns to the caller
WrapperReturn(m, args, direct) ==
  IF Promisified(m)
  THEN IF HasCallback(args) THEN direct ELSE Promise
  ELSE direct

\* the arguments the method body sees: those of the wrapper, or the caller's
\* own when the call bypasses the wrapper (call.wrapped = FALSE)
SeenArgs(call) ==
  IF "wrapped" \in DOMAIN call /\ ~call.wrapped THEN call.args
  ELSE InnerArgs(call.method, call.args)

(***************************************************************************)
(* Resource.project and Resource.operation: a result is either            *)
(* [ok |-> TRUE, hs, ret] with the new object appended to hs, or          *)
(* [ok |-> FALSE, hs, ret] with ret the thrown error.                     *)
(***************************************************************************)
NewProject(r, id, by) ==
  [kind |-> "Project", id |-> id, parent |-> r, metadata |-> Obj(<<>>),
   by |-> by]

NewOperation(r, name, by) ==
  [kind |-> "Operation", id |-> name, parent |-> r, metadata |-> Obj(<<>>),
   by |-> by]

operationUnchecked(hs, r, name, by) ==
  [ok |-> TRUE, hs |-> Append(hs, NewOperation(r, name, by)),
   ret |-> Handle(Len(hs) + 1)]

operation(hs, r, name, by) ==
  IF ~Truthy(name)
  THEN [ok |-> FALSE, hs |-> hs,
        ret |-> Throw("A name must be specified for an operation.")]
  ELSE [ok |-> TRUE, hs |-> Append(hs, NewOperation(r, name, by)),
        ret |-> Handle(Len(hs) + 1)]

projectIgnoresDefault(hs, r, id0, by) ==
  IF ~Truthy(id0)
  THEN [ok |-> FALSE, hs |-> hs, ret |-> Throw("A project ID is required.")]
  ELSE [ok |-> TRUE, hs |-> Append(hs, NewProject(r, id0, by)),
        ret |-> Handle(Len(hs) + 1)]

\* a factory that hands out the object it made earlier for the same id
projectCached(hs, r, id0, by) ==
  LET id == OrElse(id0, projectId(r))
      made == {h \in 1..Len(hs) : /\ hs[h].kind = "Project"
                                  /\ hs[h].parent = r
                                  /\ hs[h].id = id}
  IN  IF ~Truthy(id)
      THEN [ok |-> FALSE, hs |-> hs, ret |-> Throw("A project ID is required.")]
      ELSE IF made # {}
      THEN [ok |-> TRUE, hs |-> hs, ret |-> Handle(CHOOSE h \in made : TRUE)]
      ELSE [ok |-> TRUE, hs |-> Append(hs, NewProject(r, id, by)),
            ret |-> Handle(Len(hs) + 1)]

project(hs, r, id0, by) ==
  LET id == OrElse(id0, projectId(r))
  IN  IF ~Truthy(id)
      THEN [ok |-> FALSE, hs |-> hs, ret |-> Throw("A project ID is required.")]
      ELSE [ok |-> TRUE, hs |-> Append(hs, NewProject(r, id, by)),
            ret |-> Handle(Len(hs) + 1)]

\* a finished synchronous call
SyncCall(m, r, args, res) ==
  [method |-> m, self |-> r, args |-> args,
   status |-> IF res.ok THEN "returned" ELSE "threw",
   ret |-> IF res.ok THEN WrapperReturn(m, args, res.ret) ELSE Undefined,
   thrown |-> IF res.ok THEN Undefined ELSE res.ret,
   completion |-> <<>>, cbs |-> <<>>]

\* resource.project(id?) called by the user
Project(r, args) ==
  LET res == project(handles, r, Arg(InnerArgs("project", args), 1),
                     Len(calls) + 1)
  IN  /\ calls' = Append(calls, SyncCall("project", r, args, res))
      /\ handles' = res.hs
      /\ UNCHANGED requests

\* resource.operation(name) called by the user
Operation(r, args) ==
  LET res == operation(handles, r, Arg(InnerArgs("operation", args), 1),
                       Len(calls) + 1)
  IN  /\ calls' = Append(calls, SyncCall("operation", r, args, res))
      /\ handles' = res.hs
      /\ UNCHANGED requests

(***************************************************************************)
(* What the request layer may answer: no error or an error, and a raw     *)
(* response object.                                                        *)
(***************************************************************************)
Errors == {Null, Err("e1")}

UserCallback == Fn("cb")

\* an asynchronous call whose request is in flight
AsyncCall(m, self, args) ==
  [method |-> m, self |-> self, args |-> args, status |-> "pending",
   ret |-> WrapperReturn(m, args, Undefined), thrown |-> Undefined,
   completion |-> <<>>, cbs |-> <<>>]

\* this.request(reqOpts, handler) made by call number c
Request(c, self, reqOpts) == [call |-> c, self |-> self, reqOpts |-> reqOpts]

InvokeIfFunction(call, cb, cbargs) ==
  IF TypeOf(cb) = "function"
  THEN [call EXCEPT !.status = "done",
                    !.cbs = Append(@, [fn |-> cb, args |-> cbargs])]
  ELSE [call EXCEPT !.status = "done"]

\* callback!(a1, ..., an): invoking something that is not a function throws
Invoke(call, cb, cbargs) ==
  IF TypeOf(cb) = "function"
  THEN [call EXCEPT !.status = "done",
                    !.cbs = Append(@, [fn |-> cb, args |-> cbargs])]
  ELSE [call EXCEPT !.status = "threw",
                    !.thrown = Throw("callback is not a function")]

Pending(c) == c \in 1..Len(calls) /\ calls[c].status = "pending"

(***************************************************************************)
(* Resource.createProject(id, optionsOrCallback?, callback?)              *)
(***************************************************************************)
CreateOptions == {Obj([projectId |-> "p2", name |-> "n1"])}

CreateArgs ==
  {<<Str("p1")>>, <<Str("p1"), UserCallback>>}
    \cup {<<Str("p1"), o>> : o \in CreateOptions}
    \cup {<<Str("p1"), o, UserCallback>> : o \in CreateOptions}

CreateResponses ==
  {Obj([projectId |-> "p3", name |-> "op1"]),
   Obj([name |-> "op1"]),
   Obj([projectId |-> "p3"])}

\* the (err, resp) pairs the request layer may complete createProject with
CreateCompletions ==
  {<<Null, resp>> : resp \in CreateResponses}
    \cup {<<Err("e1"), Obj([projectId |-> "p3", name |-> "op1"])>>}

createProjectOptions(a) ==
  IF TypeOf(Arg(a, 2)) = "object" THEN Arg(a, 2) ELSE Obj(<<>>)

createProjectCallback(a) ==
  IF TypeOf(Arg(a, 2)) = "function" THEN Arg(a, 2) ELSE Arg(a, 3)

createProjectReqOpts(a) ==
  [method |-> "POST", uri |-> "/projects",
   json |-> ObjectAssign(Fields(createProjectOptions(a)),
                         [projectId |-> Arg(a, 1).v])]

CreateProject(r, args) ==
  LET a == InnerArgs("createProject", args)
      c == Len(calls) + 1
  IN  /\ calls' = Append(calls, AsyncCall("createProject", r, args))
      /\ requests' = Append(requests, Request(c, r, createProjectReqOpts(a)))
      /\ UNCHANGED handles

\* if (err) { callback(err, null, resp); return; }
createProjectOnErrorNoResponse(call, hs, err, resp) ==
  [call |-> Invoke(call,
                   createProjectCallback(InnerArgs("createProject", call.args)),
                   <<err, Null>>),
   hs |-> hs]

createProjectOnError(call, hs, err, resp) ==
  [call |-> Invoke(call,
                   createProjectCallback(InnerArgs("createProject", call.args)),
                   <<err, Null, resp>>),
   hs |-> hs]

\* project = this.project(resp.projectId); operation = this.operation(resp.name);
\* operation.metadata = resp; callback(null, project, operation, resp)
createProjectOnSuccess(call, c, hs, resp) ==
  LET callback == createProjectCallback(InnerArgs("createProject", call.args))
      p == project(hs, call.self, Get(resp.f, "projectId"), c)
  IN  IF ~p.ok
      THEN [call |-> [call EXCEPT !.status = "threw", !.thrown = p.ret],
            hs |-> hs]
      ELSE
        LET o == operation(p.hs, call.self, Get(resp.f, "name"), c)
        IN  IF ~o.ok
            THEN [call |-> [call EXCEPT !.status = "threw", !.thrown = o.ret],
                  hs |-> p.hs]
            ELSE [call |-> Invoke(call, callback, <<Null, p.ret, o.ret, resp>>),
                  hs |-> [o.hs EXCEPT ![o.ret.h].metadata = resp]]

\* the handler given to this.request, run with (err, resp)
createProjectHandler(call, c, hs, err, resp) ==
  LET got == [call EXCEPT !.completion = <<err, resp>>]
  IN  IF Truthy(err)
      THEN createProjectOnError(got, hs, err, resp)
      ELSE createProjectOnSuccess(got, c, hs, resp)

CreateProjectComplete(c, err, resp) ==
  /\ Pending(c)
  /\ calls[c].method = "createProject"
  /\ LET out == createProjectHandler(calls[c], c, handles, err, resp)
     IN  /\ calls' = [calls EXCEPT ![c] = out.call]
         /\ handles' = out.hs
  /\ UNCHANGED requests

(***************************************************************************)
(* Resource.getProjects(optionsOrCallback?, callback?)                    *)
(***************************************************************************)
MaxRecords == 2

GetProjectOptions == {Obj([filter |-> "f1", pageToken |-> "t0"])}

GetProjectsArgs ==
  {<<>>, <<UserCallback>>}
    \cup {<<o>> : o \in GetProjectOptions}
    \cup {<<o, UserCallback>> : o \in GetProjectOptions}

\* the project records a list response may carry
ProjectRecords ==
  {[projectId |-> "p1"], [projectId |-> "p2", name |-> "n2"], [name |-> "n3"]}

RecordLists ==
  UNION {[1..n -> ProjectRecords] : n \in 0..MaxRecords}

GetProjectsResponses ==
  {Obj([projects |-> l]) : l \in RecordLists}
    \cup {Obj([projects |-> <<[projectId |-> "p1"]>>, nextPageToken |-> t]) :
            t \in {"", "t1"}}
    \cup {Obj(<<>>), Obj([nextPageToken |-> "t1"])}

\* the (err, resp) pairs the request layer may complete getProjects with
GetProjectsCompletions ==
  {<<Null, resp>> : resp \in GetProjectsResponses}
    \cup {<<Err("e1"),
             Obj([projects |-> <<[projectId |-> "p1"]>>,
                  nextPageToken |-> "t1"])>>}

getProjectsOptions(a) ==
  IF TypeOf(Arg(a, 1)) = "object" THEN Arg(a, 1) ELSE Obj(<<>>)

getProjectsCallback(a) ==
  IF TypeOf(Arg(a, 1)) = "function" THEN Arg(a, 1) ELSE Arg(a, 2)

\* a request that leaves the page token out of the query
getProjectsReqOptsDropsToken(a) ==
  [uri |-> "/projects",
   qs |-> Obj([k \in DOMAIN getProjectsOptions(a).f \ {"pageToken"} |->
                 getProjectsOptions(a).f[k]])]

getProjectsReqOpts(a) == [uri |-> "/projects", qs |-> getProjectsOptions(a)]

GetProjects(r, args) ==
  LET a == InnerArgs("getProjects", args)
      c == Len(calls) + 1
  IN  /\ calls' = Append(calls, AsyncCall("getProjects", r, args))
      /\ requests' = Append(requests, Request(c, r, getProjectsReqOpts(a)))
      /\ UNCHANGED handles

\* let nextQuery; if (resp.nextPageToken) nextQuery = Object.assign(...)
nextQueryEmptyObject(options, resp) ==
  IF Truthy(Get(resp.f, "nextPageToken"))
  THEN Obj(ObjectAssign(Fields(options),
                        [pageToken |-> resp.f["nextPageToken"]]))
  ELSE Obj(<<>>)

\* a continuation for every response that has the field, empty or not
nextQueryIfPresent(options, resp) ==
  IF "nextPageToken" \in DOMAIN resp.f
  THEN Obj(ObjectAssign(Fields(options),
                        [pageToken |-> resp.f["nextPageToken"]]))
  ELSE Undefined

nextQuery(options, resp) ==
  IF Truthy(Get(resp.f, "nextPageToken"))
  THEN Obj(ObjectAssign(Fields(options),
                        [pageToken |-> resp.f["nextPageToken"]]))
  ELSE Undefined

\* (resp.projects || []).map(record => { this.project(record.projectId) ... })
\* from record i on; acc holds the instances made so far
RECURSIVE mapProjects(_, _, _, _, _, _)
mapProjects(hs, r, recs, i, acc, by) ==
  IF i > Len(recs)
  THEN [ok |-> TRUE, hs |-> hs, ret |-> Arr(acc)]
  ELSE
    LET p == project(hs, r, Get(recs[i], "projectId"), by)
    IN  IF ~p.ok
        THEN [ok |-> FALSE, hs |-> hs, ret |-> p.ret]
        ELSE mapProjects([p.hs EXCEPT ![p.ret.h].metadata = Obj(recs[i])],
                         r, recs, i + 1, Append(acc, p.ret), by)

\* if (err) { callback(err, null, null, resp); return; }
getProjectsOnErrorMapsAnyway(call, c, hs, err, resp) ==
  LET a == InnerArgs("getProjects", call.args)
      recs == IF "projects" \in DOMAIN resp.f THEN resp.f["projects"] ELSE <<>>
      m == mapProjects(hs, call.self, recs, 1, <<>>, c)
  IN  [call |-> Invoke(call, getProjectsCallback(a),
                       <<err, IF m.ok THEN m.ret ELSE Null, Null, resp>>),
       hs |-> m.hs]

getProjectsOnError(call, c, hs, err, resp) ==
  [call |-> Invoke(call,
                   getProjectsCallback(InnerArgs("getProjects", call.args)),
                   <<err, Null, Null, resp>>),
   hs |-> hs]

\* a success path that merges the new token into the caller's options
getProjectsOnSuccessAssignsInPlace(call, c, hs, resp) ==
  LET a == InnerArgs("getProjects", call.args)
      nq == nextQuery(getProjectsOptions(a), resp)
      recs == IF "projects" \in DOMAIN resp.f THEN resp.f["projects"] ELSE <<>>
      m == mapProjects(hs, call.self, recs, 1, <<>>, c)
      same == [call EXCEPT !.args =
                 [i \in DOMAIN call.args |->
                    IF call.args[i].type = "object" /\ nq.type = "object"
                    THEN nq ELSE call.args[i]]]
  IN  IF ~m.ok
      THEN [call |-> [same EXCEPT !.status = "threw", !.thrown = m.ret],
            hs |-> m.hs]
      ELSE [call |-> Invoke(same, getProjectsCallback(a),
                            <<Null, m.ret, nq, resp>>),
            hs |-> m.hs]

\* the success path: nextQuery, the mapped projects, then the callback
getProjectsOnSuccess(call, c, hs, resp) ==
  LET a == InnerArgs("getProjects", call.args)
      nq == nextQuery(getProjectsOptions(a), resp)
      recs == IF "projects" \in DOMAIN resp.f THEN resp.f["projects"] ELSE <<>>
      m == mapProjects(hs, call.self, recs, 1, <<>>, c)
  IN  IF ~m.ok
      THEN [call |-> [call EXCEPT !.status = "threw", !.thrown = m.ret],
            hs |-> m.hs]
      ELSE [call |-> Invoke(call, getProjectsCallback(a),
                            <<Null, m.ret, nq, resp>>),
            hs |-> m.hs]

getProjectsHandler(call, c, hs, err, resp) ==
  LET got == [call EXCEPT !.completion = <<err, resp>>]
  IN  IF Truthy(err)
      THEN getProjectsOnError(got, c, hs, err, resp)
      ELSE getProjectsOnSuccess(got, c, hs, resp)

GetProjectsComplete(c, err, resp) ==
  /\ Pending(c)
  /\ calls[c].method = "getProjects"
  /\ LET out == getProjectsHandler(calls[c], c, handles, err, resp)
     IN  /\ calls' = [calls EXCEPT ![c] = out.call]
         /\ handles' = out.hs
  /\ UNCHANGED requests

(***************************************************************************)
(* Project.getIamPolicy(optionsOrCallback?, callback?) on the Project     *)
(* object handles[h]                                                       *)
(***************************************************************************)
GetIamPolicyOptions == {Obj([requestedPolicyVersion |-> 3])}

GetIamPolicyArgs ==
  {<<>>, <<UserCallback>>}
    \cup {<<o>> : o \in GetIamPolicyOptions}
    \cup {<<o, UserCallback>> : o \in GetIamPolicyOptions}

Policies ==
  {Obj([version |-> 1, bindings |-> "roles/appengine.appAdmin",
        etag |-> "BwWf8AIJOb4="]),
   Obj(<<>>)}

IsProject(h) == h \in 1..Len(handles) /\ handles[h].kind = "Project"

getIamPolicyOptions(a) ==
  IF TypeOf(Arg(a, 1)) = "object" THEN Arg(a, 1) ELSE Obj(<<>>)

getIamPolicyCallback(a) ==
  IF TypeOf(Arg(a, 1)) = "function" THEN Arg(a, 1) ELSE Arg(a, 2)

getIamPolicyReqOptsBareBody(a) ==
  [method |-> "POST", uri |-> ":getIamPolicy", body |-> getIamPolicyOptions(a)]

getIamPolicyReqOpts(a) ==
  [method |-> "POST", uri |-> ":getIamPolicy",
   body |-> [options |-> getIamPolicyOptions(a)]]

GetIamPolicy(h, args) ==
  LET a == InnerArgs("getIamPolicy", args)
      c == Len(calls) + 1
  IN  /\ IsProject(h)
      /\ calls' = Append(calls, AsyncCall("getIamPolicy", Handle(h), args))
      /\ requests' =
           Append(requests, Request(c, Handle(h), getIamPolicyReqOpts(a)))
      /\ UNCHANGED handles

getIamPolicyHandler(call, err, resp) ==
  Invoke([call EXCEPT !.completion = <<err, resp>>],
         getIamPolicyCallback(SeenArgs(call)),
         <<err, resp>>)

\* one answer given to every getIamPolicy call outstanding on the object
GetIamPolicyCompleteCoalesced(c, err, resp) ==
  /\ Pending(c)
  /\ calls[c].method = "getIamPolicy"
  /\ calls' = [d \in 1..Len(calls) |->
                IF Pending(d) /\ calls[d].method = "getIamPolicy"
                              /\ calls[d].self = calls[c].self
                THEN getIamPolicyHandler(calls[d], err, resp)
                ELSE calls[d]]
  /\ UNCHANGED <<requests, handles>>

GetIamPolicyComplete(c, err, resp) ==
  /\ Pending(c)
  /\ calls[c].method = "getIamPolicy"
  /\ calls' = [calls EXCEPT ![c] = getIamPolicyHandler(calls[c], err, resp)]
  /\ UNCHANGED <<requests, handles>>

(***************************************************************************)
(* The other Project RPCs.  A method is reached either through the        *)
(* wrapper promisifyAll(Project) installs (wrapped = TRUE) or, when that  *)
(* layer is bypassed as the unit tests do, directly (wrapped = FALSE).    *)
(***************************************************************************)
\* util.noop
Noop == Fn("noop")

\* the arguments the method body sees
RpcArgs(m, args, wrapped) == IF wrapped THEN InnerArgs(m, args) ELSE args

Inner(call) == RpcArgs(call.method, call.args, call.wrapped)

\* a Project method call whose request is in flight
RpcCall(m, h, args, wrapped) ==
  [method |-> m, self |-> Handle(h), args |-> args, wrapped |-> wrapped,
   status |-> "pending",
   ret |-> IF wrapped THEN WrapperReturn(m, args, Undefined) ELSE Undefined,
   thrown |-> Undefined, completion |-> <<>>, cbs |-> <<>>]

\* this.request(reqOpts, handler) issued by a new call of method m on h
IssueRpc(m, h, args, wrapped, reqOpts) ==
  /\ IsProject(h)
  /\ calls' = Append(calls, RpcCall(m, h, args, wrapped))
  /\ requests' = Append(requests, Request(Len(calls) + 1, Handle(h), reqOpts))
  /\ UNCHANGED handles

\* the request of call c, a call of method m, completes and its handler runs
FinishRpcKeepsResponse(m, c, after) ==
  /\ Pending(c)
  /\ calls[c].method = m
  /\ calls' = [calls EXCEPT ![c] = after]
  /\ handles' = [handles EXCEPT ![calls[c].self.h].metadata =
                                   after.completion[2]]
  /\ UNCHANGED requests

FinishRpcRetriesOnError(m, c, after) ==
  /\ Pending(c)
  /\ calls[c].method = m
  /\ calls' = [calls EXCEPT ![c] = after]
  /\ requests' = IF Truthy(after.completion[1])
                 THEN Append(requests,
                             requests[CHOOSE i \in 1..Len(requests) :
                                        requests[i].call = c])
                 ELSE requests
  /\ UNCHANGED handles

FinishRpc(m, c, after) ==
  /\ Pending(c)
  /\ calls[c].method = m
  /\ calls' = [calls EXCEPT ![c] = after]
  /\ UNCHANGED <<requests, handles>>

(***************************************************************************)
(* Project.restore(callback?)                                              *)
(***************************************************************************)
\* getIamPolicy called without the promise wrapper
GetIamPolicyDirect(h, args) ==
  IssueRpc("getIamPolicy", h, args, FALSE, getIamPolicyReqOpts(args))

RestoreArgs == {<<>>, <<UserCallback>>}

RestoreResponses == {Obj([a |-> "b", c |-> "d"])}

\* callback = callback || util.noop
restoreCallbackNoDefault(a) == Arg(a, 1)

restoreCallback(a) == OrElse(Arg(a, 1), Noop)

restoreReqOptsDelete == [method |-> "DELETE", uri |-> ""]

restoreReqOpts == [method |-> "POST", uri |-> ":undelete"]

Restore(h, args, wrapped) ==
  IssueRpc("restore", h, args, wrapped, restoreReqOpts)

restoreHandlerDropsError(call, err, resp) ==
  Invoke([call EXCEPT !.completion = <<err, resp>>],
         restoreCallback(Inner(call)), <<Null, resp>>)

restoreHandler(call, err, resp) ==
  Invoke([call EXCEPT !.completion = <<err, resp>>],
         restoreCallback(Inner(call)), <<err, resp>>)

RestoreComplete(c, err, resp) ==
  FinishRpc("restore", c, restoreHandler(calls[c], err, resp))

(***************************************************************************)
(* Project.getAncestry(callback?)                                          *)
(***************************************************************************)
GetAncestryArgs == {<<>>, <<UserCallback>>}

Ancestries ==
  {Obj([ancestor |->
          <<[resourceId |-> [id |-> "project-id", type |-> "project"]],
            [resourceId |-> [id |-> "396521612403", type |-> "folder"]]>>])}

\* callback = callback || util.noop
getAncestryCallback(a) == OrElse(Arg(a, 1), Noop)

getAncestryReqOpts == [method |-> "POST", uri |-> ":getAncestry"]

GetAncestry(h, args, wrapped) ==
  IssueRpc("getAncestry", h, args, wrapped, getAncestryReqOpts)

getAncestryHandlerProjectLast(call, err, resp) ==
  Invoke([call EXCEPT !.completion = <<err, resp>>],
         getAncestryCallback(Inner(call)),
         <<err,
           IF resp.type = "object" /\ "ancestor" \in DOMAIN resp.f
           THEN Obj([ancestor |->
                       [i \in 1..Len(resp.f["ancestor"]) |->
                          resp.f["ancestor"][Len(resp.f["ancestor"]) + 1 - i]]])
           ELSE resp>>)

getAncestryHandler(call, err, resp) ==
  Invoke([call EXCEPT !.completion = <<err, resp>>],
         getAncestryCallback(Inner(call)), <<err, resp>>)

GetAncestryComplete(c, err, resp) ==
  FinishRpc("getAncestry", c, getAncestryHandler(calls[c], err, resp))

(***************************************************************************)
(* Project.getEffectiveOrgPolicy(constraint, callback?)                   *)
(***************************************************************************)
Constraints ==
  {Str("constraints/compute.requireServiceAccountUsagePermissionForFirewalls")}

OrgPolicyArgs ==
  {<<k>> : k \in Constraints} \cup {<<k, UserCallback>> : k \in Constraints}

OrgPolicies ==
  {Obj([constraint |->
          "constraints/compute.requireServiceAccountUsagePermissionForFirewalls",
        etag |-> "BwVJi0OOESU="])}

getEffectiveOrgPolicyReqOptsNoBody(a) ==
  [method |-> "POST", uri |-> ":getEffectiveOrgPolicy"]

getEffectiveOrgPolicyReqOpts(a) ==
  [method |-> "POST", uri |-> ":getEffectiveOrgPolicy",
   body |-> [constraint |-> Arg(a, 1)]]

GetEffectiveOrgPolicy(h, args, wrapped) ==
  IssueRpc("getEffectiveOrgPolicy", h, args, wrapped,
           getEffectiveOrgPolicyReqOpts(
             RpcArgs("getEffectiveOrgPolicy", args, wrapped)))

getEffectiveOrgPolicyHandler(call, err, resp) ==
  Invoke([call EXCEPT !.completion = <<err, resp>>],
         Arg(Inner(call), 2), <<err, resp>>)

GetEffectiveOrgPolicyComplete(c, err, resp) ==
  FinishRpc("getEffectiveOrgPolicy", c,
            getEffectiveOrgPolicyHandler(calls[c], err, resp))

(***************************************************************************)
(* Project.getOrgPolicy(constraint, callback?)                            *)
(***************************************************************************)
\* callback = callback || util.noop
getOrgPolicyCallbackNoDefault(a) == Arg(a, 2)

getOrgPolicyCallback(a) == OrElse(Arg(a, 2), Noop)

getOrgPolicyReqOpts(a) ==
  [method |-> "POST", uri |-> ":getOrgPolicy",
   body |-> [constraint |-> Arg(a, 1)]]

GetOrgPolicy(h, args, wrapped) ==
  IssueRpc("getOrgPolicy", h, args, wrapped,
           getOrgPolicyReqOpts(RpcArgs("getOrgPolicy", args, wrapped)))

getOrgPolicyHandler(call, err, resp) ==
  Invoke([call EXCEPT !.completion = <<err, resp>>],
         getOrgPolicyCallback(Inner(call)), <<err, resp>>)

GetOrgPolicyComplete(c, err, resp) ==
  FinishRpc("getOrgPolicy", c, getOrgPolicyHandler(calls[c], err, resp))

(***************************************************************************)
(* Project.getAvailableOrgPolicyConstraints(optionsOrCallback?, callback?) *)
(* The request layer calls the handler with (err, body, response); the    *)
(* handler is (err, constraints, ...resp) => callback(err, constraints,   *)
(* ...resp).                                                               *)
(***************************************************************************)
GetOrgPolicyOptions == {Obj([pageSize |-> 1])}

GetConstraintsArgs ==
  {<<>>, <<UserCallback>>}
    \cup {<<o>> : o \in GetOrgPolicyOptions}
    \cup {<<o, UserCallback>> : o \in GetOrgPolicyOptions}

ListConstraintsResponses ==
  {Obj([constraints |-> <<[name |-> "c1"], [name |-> "c2"]>>,
        nextPageToken |-> "t1"]),
   Obj([constraints |-> <<[name |-> "c1"]>>])}

\* the full HTTP response the request layer passes after the body
HttpResponse == Obj([statusCode |-> 200])

getAvailableOrgPolicyConstraintsOptions(a) ==
  IF TypeOf(Arg(a, 1)) = "object" THEN Arg(a, 1) ELSE Obj(<<>>)

getAvailableOrgPolicyConstraintsCallback(a) ==
  IF TypeOf(Arg(a, 1)) = "function" THEN Arg(a, 1) ELSE Arg(a, 2)

getAvailableOrgPolicyConstraintsReqOpts(a) ==
  [method |-> "POST", uri |-> ":listAvailableOrgPolicyConstraints",
   qs |-> getAvailableOrgPolicyConstraintsOptions(a)]

GetAvailableOrgPolicyConstraints(h, args, wrapped) ==
  IssueRpc("getAvailableOrgPolicyConstraints", h, args, wrapped,
           getAvailableOrgPolicyConstraintsReqOpts(
             RpcArgs("getAvailableOrgPolicyConstraints", args, wrapped)))

getAvailableOrgPolicyConstraintsHandler(call, err, constraints, resp) ==
  Invoke([call EXCEPT !.completion = <<err, constraints>> \o resp],
         getAvailableOrgPolicyConstraintsCallback(Inner(call)),
         <<err, constraints>> \o resp)

GetAvailableOrgPolicyConstraintsComplete(c, err, constraints, resp) ==
  FinishRpc("getAvailableOrgPolicyConstraints", c,
            getAvailableOrgPolicyConstraintsHandler(calls[c], err,
                                                    constraints, resp))

(***************************************************************************)
(* Project.create(callback?): super.create(callback), the generic create  *)
(* of the service object, which applies createMethod to (this.id,         *)
(* onCreate); createMethod is resource.createProject.bind(resource).      *)
(***************************************************************************)
CreateMethodArgs == {<<>>, <<UserCallback>>}

OnCreate == Fn("onCreate")

\* the receiver createMethod is bound to
createMethodFirstClient(hs, h) == "r1"

createMethod(hs, h) == hs[h].parent

\* the createProject call the generic create makes for the object h
createMethodCall(call, hs) ==
  [call EXCEPT !.method = "createProject",
               !.self = createMethod(hs, call.self.h),
               !.args = <<hs[call.self.h].id, OnCreate>>]

Create(h, args, wrapped) ==
  /\ IsProject(h)
  /\ LET call == RpcCall("create", h, args, wrapped)
         inner == createMethodCall(call, handles)
     IN  /\ calls' = Append(calls, call)
         /\ requests' =
              Append(requests,
                     Request(Len(calls) + 1, inner.self,
                             createProjectReqOpts(
                               InnerArgs("createProject", inner.args))))
  /\ UNCHANGED handles

\* onCreate(err, instance, ...): on success the object takes the new
\* instance's metadata and stands in for it; then callback(...args)
onCreate(call, hs, a) ==
  IF Truthy(a[1])
  THEN [call |-> Invoke(call, Arg(Inner(call), 1), a), hs |-> hs]
  ELSE [call |-> Invoke(call, Arg(Inner(call), 1),
                        [a EXCEPT ![2] = call.self]),
        hs |-> [hs EXCEPT ![call.self.h].metadata = hs[a[2].h].metadata]]

createHandler(call, c, hs, err, resp) ==
  LET out == createProjectHandler(createMethodCall(call, hs), c, hs, err, resp)
      got == [call EXCEPT !.completion = <<err, resp>>]
  IN  IF out.call.status = "threw"
      THEN [call |-> [got EXCEPT !.status = "threw",
                                 !.thrown = out.call.thrown],
            hs |-> out.hs]
      ELSE onCreate(got, out.hs, out.call.cbs[1].args)

CreateComplete(c, err, resp) ==
  /\ Pending(c)
  /\ calls[c].method = "create"
  /\ LET out == createHandler(calls[c], c, handles, err, resp)
     IN  /\ calls' = [calls EXCEPT ![c] = out.call]
         /\ handles' = out.hs
  /\ UNCHANGED requests

(***************************************************************************)
(* Project.delete(callback), one of the generic methods the constructor   *)
(* enables (methods.delete = true): a DELETE request on the project whose *)
(* (err, apiResponse) go to the callback; the local object is left alone. *)
(***************************************************************************)
DeleteResponses == {Obj(<<>>)}

deleteReqOpts == [method |-> "DELETE", uri |-> ""]

Delete(h, args) == IssueRpc("delete", h, args, TRUE, deleteReqOpts)

deleteHandler(call, err, resp) ==
  Invoke([call EXCEPT !.completion = <<err, resp>>],
         Arg(Inner(call), 1), <<err, resp>>)

DeleteComplete(c, err, resp) ==
  FinishRpc("delete", c, deleteHandler(calls[c], err, resp))

(***************************************************************************)
(* Manual pagination, as the getProjects documentation shows it:          *)
(*   function callback(err, projects, nextQuery, apiResponse) {           *)
(*     if (nextQuery) { resource.getProjects(nextQuery, callback); }      *)
(*   }                                                                     *)
(*   resource.getProjects({autoPaginate: false}, callback);               *)
(* against a server that holds a fixed list of records per filter and     *)
(* serves it pageSize records at a time.                                   *)
(***************************************************************************)
NextCallback == Fn("callback")

ChainOptions ==
  {Obj([filter |-> "f0"]),
   Obj([filter |-> "f1", pageSize |-> 1]),
   Obj([filter |-> "f2", pageSize |-> 1])}

\* the records the server holds under the query's filter
ServerRecords(qs) ==
  CASE Get(qs.f, "filter") = Str("f1") ->
         <<[projectId |-> "p1"], [projectId |-> "p2", name |-> "n2"],
           [projectId |-> "p3"]>>
    [] Get(qs.f, "filter") = Str("f2") ->
         <<[projectId |-> "p1"], [name |-> "n3"]>>
    [] OTHER -> <<>>

\* the token that stands for "k records already served"
PageTokens == <<"t1", "t2", "t3">>

ServerOffset(qs) ==
  IF "pageToken" \in DOMAIN qs.f /\ qs.f["pageToken"] # ""
  THEN CHOOSE k \in 1..Len(PageTokens) : PageTokens[k] = qs.f["pageToken"]
  ELSE 0

\* the list response to a request with query string qs
ServerPage(qs) ==
  LET recs == ServerRecords(qs)
      size == IF "pageSize" \in DOMAIN qs.f THEN qs.f["pageSize"] ELSE Len(recs)
      last == IF ServerOffset(qs) + size < Len(recs)
              THEN ServerOffset(qs) + size ELSE Len(recs)
      page == SubSeq(recs, ServerOffset(qs) + 1, last)
  IN  IF last < Len(recs)
      THEN Obj([projects |-> page, nextPageToken |-> PageTokens[last]])
      ELSE Obj([projects |-> page])

\* a getProjects call of a chain; from is the call whose callback made it
ChainCall(r, args, from) ==
  [method |-> "getProjects", self |-> r, args |-> args, status |-> "pending",
   ret |-> WrapperReturn("getProjects", args, Undefined),
   thrown |-> Undefined, completion |-> <<>>, cbs |-> <<>>, from |-> from]

\* resource.getProjects(o, callback)
StartChain(r, o) ==
  /\ calls' = Append(calls, ChainCall(r, <<o, NextCallback>>, 0))
  /\ requests' = Append(requests,
                        Request(Len(calls) + 1, r,
                                getProjectsReqOpts(<<o, NextCallback>>)))
  /\ UNCHANGED handles

\* the arguments of the call the callback makes, none when it makes no call
callback(a) == IF Truthy(a[3]) THEN <<a[3], NextCallback>> ELSE <<>>

\* the request layer answers call c with resp; the handler runs and, through
\* the callback, asks for the next page
ChainAnswer(c, resp) ==
  /\ Pending(c)
  /\ "from" \in DOMAIN calls[c]
  /\ LET out == getProjectsHandler(calls[c], c, handles, Null, resp)
         again == IF out.call.cbs = <<>> THEN <<>>
                  ELSE callback(out.call.cbs[1].args)
         done == [calls EXCEPT ![c] = out.call]
     IN  /\ handles' = out.hs
         /\ IF again = <<>>
            THEN calls' = done /\ UNCHANGED requests
            ELSE /\ calls' = Append(done, ChainCall(calls[c].self, again, c))
                 /\ requests' = Append(requests,
                                       Request(Len(calls) + 1, calls[c].self,
                                               getProjectsReqOpts(again)))

\* the query string call c was sent with
SentQuery(c) ==
  requests[CHOOSE i \in 1..Len(requests) : requests[i].call = c].reqOpts.qs

\* the server answers call c
ChainStep(c) == Pending(c) /\ ChainAnswer(c, ServerPage(SentQuery(c)))

\* the server answers call c with its page and an empty nextPageToken
EmptyTokenPage(qs) ==
  Obj([projects |-> ServerPage(qs).f["projects"], nextPageToken |-> ""])

ChainStepEmptyToken(c) ==
  Pending(c) /\ ChainAnswer(c, EmptyTokenPage(SentQuery(c)))

(***************************************************************************)
(* Automatic pagination: paginator.extend(Resource, ['getProjects'])      *)
(* replaces getProjects by a wrapper that, unless autoPaginate is false,  *)
(* calls the method one page after the other, each time with the          *)
(* continuation the previous page delivered, collects the results up to   *)
(* maxResults, makes at most maxApiCalls calls, and hands the caller's     *)
(* callback (err) or (null, results) at the end.                           *)
(***************************************************************************)
OnResultSet == Fn("onResultSet")

AutoOptions ==
  {Obj([filter |-> "f0"]),
   Obj([filter |-> "f1"]),
   Obj([filter |-> "f2"]),
   Obj([filter |-> "f2", maxResults |-> 1]),
   Obj([filter |-> "f1", maxApiCalls |-> 1]),
   Obj([filter |-> "f1", maxApiCalls |-> 2]),
   Obj([filter |-> "f1", maxResults |-> 1]),
   Obj([filter |-> "f1", maxResults |-> 2]),
   Obj([filter |-> "f1", maxApiCalls |-> 2, maxResults |-> 2])}

\* the page sizes the server may choose for an answer
PageSizes == {1, 2}

\* a cap of the options, -1 when it is not given
Cap(o, k) == IF k \in DOMAIN o.f THEN o.f[k] ELSE -1

\* the query of the first page: the options without the paginator's own
AutoQuery(o) ==
  Obj([k \in DOMAIN o.f \ {"autoPaginate", "maxApiCalls", "maxResults"} |->
         o.f[k]])

\* the caller's call; results holds what the pages delivered so far
AutoCall(r, args) ==
  [method |-> "getProjects", self |-> r, args |-> args, status |-> "pending",
   ret |-> Undefined, thrown |-> Undefined, completion |-> <<>>,
   cbs |-> <<>>, results |-> <<>>]

\* a call of the method made by the wrapper for the caller's call auto;
\* prev is the page call whose continuation it carries
PageCall(r, q, auto, prev) ==
  [method |-> "getProjects", self |-> r, args |-> <<q, OnResultSet>>,
   status |-> "pending", ret |-> Undefined, thrown |-> Undefined,
   completion |-> <<>>, cbs |-> <<>>, auto |-> auto, prev |-> prev]

\* resource.getProjects(o, callback) with automatic pagination
StartAuto(r, o) ==
  LET k == Len(calls) + 1
  IN  /\ calls' = calls \o <<AutoCall(r, <<o, UserCallback>>),
                             PageCall(r, AutoQuery(o), k, 0)>>
      /\ requests' = Append(requests,
                            Request(k + 1, r,
                                    getProjectsReqOpts(<<AutoQuery(o),
                                                         OnResultSet>>)))
      /\ UNCHANGED handles

\* what the wrapper does with the (err, results, nextQuery) of a page, sent
\* being the number of calls made so far for the caller's call
onResultSet(outer, a, sent) ==
  LET o == outer.args[1]
      left == Cap(o, "maxResults") - Len(outer.results)
      got == IF Truthy(a[1]) THEN <<>> ELSE a[2].items
      kept == IF Cap(o, "maxResults") >= 0 /\ Len(got) > left
              THEN SubSeq(got, 1, left) ELSE got
      all == outer.results \o kept
      more == /\ Truthy(a[3])
              /\ Cap(o, "maxResults") < 0 \/ Len(all) < Cap(o, "maxResults")
              /\ Cap(o, "maxApiCalls") < 0 \/ sent < Cap(o, "maxApiCalls")
  IN  IF Truthy(a[1])
      THEN [outer |-> Invoke(outer, outer.args[2], <<a[1]>>),
            next |-> Undefined]
      ELSE IF more
      THEN [outer |-> [outer EXCEPT !.results = all], next |-> a[3]]
      ELSE [outer |-> Invoke([outer EXCEPT !.results = all], outer.args[2],
                             <<Null, Arr(all)>>),
            next |-> Undefined]

\* the pages requested so far for the caller's call k
PagesFor(k) ==
  {c \in 1..Len(calls) : "auto" \in DOMAIN calls[c] /\ calls[c].auto = k}

\* the request layer answers page call c: the method's handler runs, then
\* the wrapper, which asks for the next page or ends the caller's call
AutoStep(c, err, size) ==
  /\ Pending(c)
  /\ "auto" \in DOMAIN calls[c]
  /\ LET k == calls[c].auto
         resp == IF Truthy(err) THEN Obj(<<>>)
                 ELSE ServerPage(Obj(ObjectAssign(SentQuery(c).f,
                                                  [pageSize |-> size])))
         out == getProjectsHandler(calls[c], c, handles, err, resp)
     IN  /\ handles' = out.hs
         /\ IF out.call.cbs = <<>>
            THEN /\ calls' = [calls EXCEPT ![c] = out.call]
                 /\ UNCHANGED requests
            ELSE LET w == onResultSet(calls[k], out.call.cbs[1].args,
                                      Cardinality(PagesFor(k)))
                     done == [calls EXCEPT ![c] = out.call, ![k] = w.outer]
                 IN  IF w.next = Undefined
                     THEN calls' = done /\ UNCHANGED requests
                     ELSE /\ calls' = Append(done,
                                             PageCall(calls[c].self, w.next,
                                                      k, c))
                          /\ requests' =
                               Append(requests,
                                      Request(Len(calls) + 1, calls[c].self,
                                              getProjectsReqOpts(
                                                <<w.next, OnResultSet>>)))

(***************************************************************************)
(* Specifications.  Init is the state after the two clients have been     *)
(* constructed: nothing called, nothing requested, no object made.        *)
(***************************************************************************)
Init ==
  /\ calls = <<>>
  /\ requests = <<>>
  /\ handles = <<>>

MaxListCalls == 1
MaxProjectCalls == 3

ProjectArgs == {<<>>, <<Str("")>>, <<Str("p1")>>}
OperationArgs == {<<>>, <<Str("")>>, <<Str("op1")>>}

CallProject == \E r \in Resources, a \in ProjectArgs : Project(r, a)
CallOperation == \E r \in Resources, a \in OperationArgs : Operation(r, a)
CallCreateProject == \E r \in Resources, a \in CreateArgs : CreateProject(r, a)
CompleteCreateProject ==
  \E c \in 1..Len(calls), x \in CreateCompletions :
    CreateProjectComplete(c, x[1], x[2])
CallGetProjects == \E r \in Resources, a \in GetProjectsArgs : GetProjects(r, a)
CompleteGetProjects ==
  \E c \in 1..Len(calls), x \in GetProjectsCompletions :
    GetProjectsComplete(c, x[1], x[2])
CallGetIamPolicy ==
  \E h \in 1..Len(handles), a \in GetIamPolicyArgs : GetIamPolicy(h, a)
CompleteGetIamPolicy ==
  \E c \in 1..Len(calls), e \in Errors, resp \in Policies :
    GetIamPolicyComplete(c, e, resp)

\* the Resource facade: the factories and createProject
NextResource ==
  \/ Len(calls) < MaxCalls /\ CallProject
  \/ Len(calls) < MaxCalls /\ CallOperation
  \/ Len(calls) < MaxCalls /\ CallCreateProject
  \/ CompleteCreateProject

SpecResource == Init /\ [][NextResource]_vars

\* listing projects
NextList ==
  \/ Len(calls) < MaxListCalls /\ CallGetProjects
  \/ CompleteGetProjects

SpecList == Init /\ [][NextList]_vars

\* the Project facade: objects made by resource.project('p1'), then their RPCs
NextProject ==
  \/ Len(calls) < MaxProjectCalls /\ \E r \in Resources : Project(r, <<Str("p1")>>)
  \/ Len(calls) < MaxProjectCalls /\ CallGetIamPolicy
  \/ CompleteGetIamPolicy

SpecProject == Init /\ [][NextProject]_vars

\* the Project RPCs, wrapped and bypassing the promise wrapper
MaxRpcCalls == 2

CallRestore ==
  \E h \in 1..Len(handles), a \in RestoreArgs, w \in BOOLEAN : Restore(h, a, w)
CompleteRestore ==
  \E c \in 1..Len(calls), e \in Errors, resp \in RestoreResponses :
    RestoreComplete(c, e, resp)
CallGetAncestry ==
  \E h \in 1..Len(handles), a \in GetAncestryArgs, w \in BOOLEAN :
    GetAncestry(h, a, w)
CompleteGetAncestry ==
  \E c \in 1..Len(calls), e \in Errors, resp \in Ancestries :
    GetAncestryComplete(c, e, resp)
CallGetEffectiveOrgPolicy ==
  \E h \in 1..Len(handles), a \in OrgPolicyArgs, w \in BOOLEAN :
    GetEffectiveOrgPolicy(h, a, w)
CompleteGetEffectiveOrgPolicy ==
  \E c \in 1..Len(calls), e \in Errors, resp \in OrgPolicies :
    GetEffectiveOrgPolicyComplete(c, e, resp)
CallGetOrgPolicy ==
  \E h \in 1..Len(handles), a \in OrgPolicyArgs, w \in BOOLEAN :
    GetOrgPolicy(h, a, w)
CompleteGetOrgPolicy ==
  \E c \in 1..Len(calls), e \in Errors, resp \in OrgPolicies :
    GetOrgPolicyComplete(c, e, resp)
CallGetAvailableOrgPolicyConstraints ==
  \E h \in 1..Len(handles), a \in GetConstraintsArgs, w \in BOOLEAN :
    GetAvailableOrgPolicyConstraints(h, a, w)
CompleteGetAvailableOrgPolicyConstraints ==
  \E c \in 1..Len(calls), e \in Errors, body \in ListConstraintsResponses :
    GetAvailableOrgPolicyConstraintsComplete(c, e, body, <<HttpResponse>>)
\* create goes through the wrapper promisifyAll(Project) installs
CallCreate ==
  \E h \in 1..Len(handles), a \in CreateMethodArgs : Create(h, a, TRUE)
CallGetIamPolicyDirect ==
  \E h \in 1..Len(handles), a \in GetIamPolicyArgs : GetIamPolicyDirect(h, a)
CompleteCreate ==
  \E c \in 1..Len(calls), x \in CreateCompletions :
    CreateComplete(c, x[1], x[2])

NextRpc ==
  \/ Len(calls) < MaxRpcCalls /\ \E r \in Resources : Project(r, <<Str("p1")>>)
  \/ Len(calls) < MaxRpcCalls /\ CallRestore
  \/ CompleteRestore
  \/ Len(calls) < MaxRpcCalls /\ CallGetAncestry
  \/ CompleteGetAncestry
  \/ Len(calls) < MaxRpcCalls /\ CallGetEffectiveOrgPolicy
  \/ CompleteGetEffectiveOrgPolicy
  \/ Len(calls) < MaxRpcCalls /\ CallGetOrgPolicy
  \/ CompleteGetOrgPolicy
  \/ Len(calls) < MaxRpcCalls /\ CallGetAvailableOrgPolicyConstraints
  \/ CompleteGetAvailableOrgPolicyConstraints
  \/ Len(calls) < MaxRpcCalls /\ CallCreate
  \/ CompleteCreate
  \/ Len(calls) < MaxRpcCalls /\ CallGetIamPolicyDirect
  \/ CompleteGetIamPolicy

SpecRpc == Init /\ [][NextRpc]_vars

\* Project.create side by side with Resource.createProject
MaxCreateCalls == 3

\* createProject(id) with no options, as the generic create calls it
PlainCreateArgs == {<<Str("p1")>>, <<Str("p1"), UserCallback>>}

\* the client whose projects are created both ways
CreateClient == "r2"

CallPlainCreateProject ==
  \E a \in PlainCreateArgs : CreateProject(CreateClient, a)

NextCreate ==
  \/ Len(calls) < MaxCreateCalls /\ Project(CreateClient, <<Str("p1")>>)
  \/ Len(calls) < MaxCreateCalls /\ CallCreate
  \/ CompleteCreate
  \/ Len(calls) < MaxCreateCalls /\ CallPlainCreateProject
  \/ CompleteCreateProject

SpecCreate == Init /\ [][NextCreate]_vars

\* manual pagination chains
MaxChains == 2

IsChainCall(c) == "from" \in DOMAIN calls[c]

ChainStarts == {c \in 1..Len(calls) : IsChainCall(c) /\ calls[c].from = 0}

NextChain ==
  \/ /\ Cardinality(ChainStarts) < MaxChains
     /\ \E r \in Resources, o \in ChainOptions : StartChain(r, o)
  \/ \E c \in 1..Len(calls) : ChainStep(c)

SpecChain == Init /\ [][NextChain]_vars

\* every asynchronous method side by side, on one client and its projects
MaxEveryCalls == 2

\* the list completions used when getProjects runs next to other methods
PlainListCompletions ==
  {<<Null, Obj([projects |-> <<[projectId |-> "p1"]>>,
                nextPageToken |-> "t1"])>>,
   <<Null, Obj([projects |-> <<[name |-> "n3"]>>])>>,
   <<Err("e1"), Obj(<<>>)>>}

CallPlainGetProjects ==
  \E a \in GetProjectsArgs : GetProjects(CreateClient, a)
CompletePlainGetProjects ==
  \E c \in 1..Len(calls), x \in PlainListCompletions :
    GetProjectsComplete(c, x[1], x[2])

NextEvery ==
  \/ Len(calls) < MaxEveryCalls /\ Project(CreateClient, <<Str("p1")>>)
  \/ Len(calls) < MaxEveryCalls /\ CallPlainCreateProject
  \/ CompleteCreateProject
  \/ Len(calls) < MaxEveryCalls /\ CallPlainGetProjects
  \/ CompletePlainGetProjects
  \/ Len(calls) < MaxEveryCalls /\ CallGetIamPolicy
  \/ CompleteGetIamPolicy
  \/ Len(calls) < MaxEveryCalls /\ CallRestore
  \/ CompleteRestore
  \/ Len(calls) < MaxEveryCalls /\ CallGetAncestry
  \/ CompleteGetAncestry
  \/ Len(calls) < MaxEveryCalls /\ CallGetEffectiveOrgPolicy
  \/ CompleteGetEffectiveOrgPolicy
  \/ Len(calls) < MaxEveryCalls /\ CallGetOrgPolicy
  \/ CompleteGetOrgPolicy
  \/ Len(calls) < MaxEveryCalls /\ CallGetAvailableOrgPolicyConstraints
  \/ CompleteGetAvailableOrgPolicyConstraints

SpecEvery == Init /\ [][NextEvery]_vars

\* calls outstanding at the same time: getIamPolicy on the client's projects
\* next to getProjects on the client
MaxConcurrentCalls == 3

\* getIamPolicy(callback) answered with a policy or an error
CallPlainGetIamPolicy ==
  \E h \in 1..Len(handles) : GetIamPolicy(h, <<UserCallback>>)
CompletePlainGetIamPolicy ==
  \E c \in 1..Len(calls), e \in Errors :
    GetIamPolicyComplete(c, e, Obj([version |-> 1, etag |-> "BwWf8AIJOb4="]))

NextConcurrent ==
  \/ Len(calls) < MaxConcurrentCalls /\ Project(CreateClient, <<Str("p1")>>)
  \/ Len(calls) < MaxConcurrentCalls /\ CallPlainGetIamPolicy
  \/ CompletePlainGetIamPolicy
  \/ Len(calls) < MaxConcurrentCalls /\ GetProjects(CreateClient, <<UserCallback>>)
  \/ CompletePlainGetProjects

SpecConcurrent == Init /\ [][NextConcurrent]_vars

\* repeated RPCs on the projects of one client, each with a callback
MaxFrameCalls == 3

NextFrame ==
  \/ Len(calls) < MaxFrameCalls /\ Project(CreateClient, <<Str("p1")>>)
  \/ Len(calls) < MaxFrameCalls /\ CallPlainGetIamPolicy
  \/ CompletePlainGetIamPolicy
  \/ /\ Len(calls) < MaxFrameCalls
     /\ \E h \in 1..Len(handles) : Restore(h, <<UserCallback>>, TRUE)
  \/ CompleteRestore
  \/ /\ Len(calls) < MaxFrameCalls
     /\ \E h \in 1..Len(handles) : GetAncestry(h, <<UserCallback>>, TRUE)
  \/ CompleteGetAncestry
  \/ /\ Len(calls) < MaxFrameCalls
     /\ \E h \in 1..Len(handles), k \in Constraints :
          GetEffectiveOrgPolicy(h, <<k, UserCallback>>, TRUE)
  \/ CompleteGetEffectiveOrgPolicy
  \/ /\ Len(calls) < MaxFrameCalls
     /\ \E h \in 1..Len(handles), k \in Constraints :
          GetOrgPolicy(h, <<k, UserCallback>>, TRUE)
  \/ CompleteGetOrgPolicy
  \/ /\ Len(calls) < MaxFrameCalls
     /\ \E h \in 1..Len(handles) :
          GetAvailableOrgPolicyConstraints(h, <<UserCallback>>, TRUE)
  \/ CompleteGetAvailableOrgPolicyConstraints

SpecFrame == Init /\ [][NextFrame]_vars

\* where handles come from (the factory, list records, created projects)
\* and what becomes of them, delete included
MaxHandleCalls == 3

CallDelete == \E h \in 1..Len(handles) : Delete(h, <<UserCallback>>)
CompleteDelete ==
  \E c \in 1..Len(calls), e \in Errors, resp \in DeleteResponses :
    DeleteComplete(c, e, resp)

NextHandles ==
  \/ Len(calls) < MaxHandleCalls /\ Project(CreateClient, <<Str("p1")>>)
  \/ Len(calls) < MaxHandleCalls /\ GetProjects(CreateClient, <<UserCallback>>)
  \/ CompletePlainGetProjects
  \/ /\ Len(calls) < MaxHandleCalls
     /\ CreateProject(CreateClient, <<Str("p1"), UserCallback>>)
  \/ CompleteCreateProject
  \/ Len(calls) < MaxHandleCalls /\ CallDelete
  \/ CompleteDelete
  \/ /\ Len(calls) < MaxHandleCalls
     /\ \E h \in 1..Len(handles) : Restore(h, <<UserCallback>>, TRUE)
  \/ CompleteRestore

SpecHandles == Init /\ [][NextHandles]_vars

\* createProject and getProjects called with an options object
MaxOptionCalls == 2

OptionCalls ==
  \/ \E a \in {x \in CreateArgs : TypeOf(Arg(x, 2)) = "object"} :
       CreateProject(CreateClient, a)
  \/ \E a \in {x \in GetProjectsArgs : TypeOf(Arg(x, 1)) = "object"} :
       GetProjects(CreateClient, a)

NextOptions ==
  \/ Len(calls) < MaxOptionCalls /\ OptionCalls
  \/ CompleteCreateProject
  \/ CompletePlainGetProjects

SpecOptions == Init /\ [][NextOptions]_vars

\* manual pagination against a server that may send an empty nextPageToken
MaxTokenChains == 2

NextToken ==
  \/ /\ Cardinality(ChainStarts) < MaxTokenChains
     /\ \E o \in ChainOptions : StartChain(CreateClient, o)
  \/ \E c \in 1..Len(calls) : ChainStep(c)
  \/ \E c \in 1..Len(calls) : ChainStepEmptyToken(c)

SpecToken == Init /\ [][NextToken]_vars

\* automatic pagination
MaxAutoCalls == 1

AutoStarts == {c \in 1..Len(calls) : "results" \in DOMAIN calls[c]}

NextAuto ==
  \/ /\ Cardinality(AutoStarts) < MaxAutoCalls
     /\ \E r \in Resources, o \in AutoOptions : StartAuto(r, o)
  \/ \E c \in 1..Len(calls), e \in Errors, n \in PageSizes : AutoStep(c, e, n)

SpecAuto == Init /\ [][NextAuto]_vars

Next ==
  \/ Len(calls) < MaxCalls /\ CallProject
  \/ Len(calls) < MaxCalls /\ CallOperation
  \/ Len(calls) < MaxCalls /\ CallCreateProject
  \/ CompleteCreateProject
  \/ Len(calls) < MaxCalls /\ CallGetProjects
  \/ CompleteGetProjects
  \/ Len(calls) < MaxCalls /\ CallGetIamPolicy
  \/ CompleteGetIamPolicy
  \/ Len(calls) < MaxCalls /\ CallRestore
  \/ CompleteRestore
  \/ Len(calls) < MaxCalls /\ CallGetAncestry
  \/ CompleteGetAncestry
  \/ Len(calls) < MaxCalls /\ CallGetEffectiveOrgPolicy
  \/ CompleteGetEffectiveOrgPolicy
  \/ Len(calls) < MaxCalls /\ CallGetOrgPolicy
  \/ CompleteGetOrgPolicy
  \/ Len(calls) < MaxCalls /\ CallGetAvailableOrgPolicyConstraints
  \/ CompleteGetAvailableOrgPolicyConstraints
  \/ Len(calls) < MaxCalls /\ CallCreate
  \/ CompleteCreate
  \/ /\ Len(calls) < MaxCalls
     /\ \E r \in Resources, o \in ChainOptions : StartChain(r, o)
  \/ \E c \in 1..Len(calls) : ChainStep(c)

Spec == Init /\ [][Next]_vars

(***************************************************************************)
(* Vocabulary of the properties.                                           *)
(***************************************************************************)
CallsOf(m) == {c \in 1..Len(calls) : calls[c].method = m}

\* the request layer has completed the call's request
Completed(c) == calls[c].completion # <<>>

Failed(c) == Completed(c) /\ Truthy(calls[c].completion[1])

Succeeded(c) == Completed(c) /\ ~Truthy(calls[c].completion[1])

RespOf(c) == calls[c].completion[2]

\* who receives the results: the caller's trailing callback, or else the
\* promise the wrapper returned
Receiver(c) ==
  IF HasCallback(calls[c].args) THEN calls[c].args[Len(calls[c].args)]
  ELSE PromiseCallback

\* the call's results were delivered exactly once, to its receiver
DeliveredOnce(c) ==
  /\ calls[c].status = "done"
  /\ Len(calls[c].cbs) = 1
  /\ calls[c].cbs[1].fn = Receiver(c)

Delivery(c) == calls[c].cbs[1].args

RequestsOf(c) == {i \in 1..Len(requests) : requests[i].call = c}

MadeBy(c) == {h \in 1..Len(handles) : handles[h].by = c}

IsHandle(v, kind) ==
  /\ v.type = "handle"
  /\ v.h \in 1..Len(handles)
  /\ handles[v.h].kind = kind

\* the options object the caller passed as argument i, if any
OptionsArg(c, i) ==
  IF i <= Len(calls[c].args) /\ calls[c].args[i].type = "object"
  THEN calls[c].args[i] ELSE Obj(<<>>)

(***************************************************************************)
(* C1: on a successful createProject response resp the callback receives  *)
(* (null, project, operation, resp) with project.id = resp.projectId,     *)
(* operation.id = resp.name and operation.metadata = resp.                *)
(***************************************************************************)
C1_CreateProjectSuccess ==
  \A c \in CallsOf("createProject") :
    Succeeded(c) =>
      /\ DeliveredOnce(c)
      /\ Len(Delivery(c)) = 4
      /\ Delivery(c)[1] = Null
      /\ IsHandle(Delivery(c)[2], "Project")
      /\ handles[Delivery(c)[2].h].id = Get(RespOf(c).f, "projectId")
      /\ IsHandle(Delivery(c)[3], "Operation")
      /\ handles[Delivery(c)[3].h].id = Get(RespOf(c).f, "name")
      /\ handles[Delivery(c)[3].h].metadata = RespOf(c)
      /\ Delivery(c)[4] = RespOf(c)

(***************************************************************************)
(* C2: when the createProject request completes with an error, the        *)
(* callback receives that error and the raw response unmodified, and no   *)
(* Project or Operation is constructed or delivered.                      *)
(***************************************************************************)
C2_CreateProjectError ==
  \A c \in CallsOf("createProject") :
    Failed(c) =>
      /\ DeliveredOnce(c)
      /\ Delivery(c)[1] = calls[c].completion[1]
      /\ \E i \in 2..Len(Delivery(c)) : Delivery(c)[i] = RespOf(c)
      /\ \A i \in 1..Len(Delivery(c)) : Delivery(c)[i].type # "handle"
      /\ MadeBy(c) = {}

C2_Witness ==
  \E c \in CallsOf("createProject") : Failed(c) /\ calls[c].cbs # <<>>

(***************************************************************************)
(* C3: createProject(id, options) issues exactly one POST to /projects    *)
(* whose body is the options merged with {projectId: id}: projectId is    *)
(* the id argument even when the options carry another one, every other   *)
(* option field is unchanged, and without options the body is             *)
(* {projectId: id}.                                                        *)
(***************************************************************************)
C3_CreateProjectRequest ==
  \A c \in CallsOf("createProject") :
    /\ Cardinality(RequestsOf(c)) = 1
    /\ \A i \in RequestsOf(c) :
         LET q == requests[i].reqOpts
             o == OptionsArg(c, 2).f
         IN  /\ requests[i].self = calls[c].self
             /\ q.method = "POST"
             /\ q.uri = "/projects"
             /\ DOMAIN q.json = DOMAIN o \cup {"projectId"}
             /\ q.json["projectId"] = calls[c].args[1].v
             /\ \A k \in DOMAIN o \ {"projectId"} : q.json[k] = o[k]

C3_Witness ==
  \E c \in CallsOf("createProject") :
    /\ "projectId" \in DOMAIN OptionsArg(c, 2).f
    /\ OptionsArg(c, 2).f["projectId"] # calls[c].args[1].v
    /\ RequestsOf(c) # {}

(***************************************************************************)
(* C4: on a successful getProjects response the delivered list has the    *)
(* length and order of the response's records, element i is a Project     *)
(* whose id is record i's projectId and whose metadata is record i; a     *)
(* response without a projects field gives an empty list and no error.    *)
(***************************************************************************)
C4_GetProjectsSuccess ==
  \A c \in CallsOf("getProjects") :
    Succeeded(c) =>
      LET recs == IF "projects" \in DOMAIN RespOf(c).f
                  THEN RespOf(c).f["projects"] ELSE <<>>
      IN  /\ DeliveredOnce(c)
          /\ Delivery(c)[1] = Null
          /\ Delivery(c)[2].type = "array"
          /\ Len(Delivery(c)[2].items) = Len(recs)
          /\ \A i \in 1..Len(recs) :
               /\ IsHandle(Delivery(c)[2].items[i], "Project")
               /\ handles[Delivery(c)[2].items[i].h].id =
                    Get(recs[i], "projectId")
               /\ handles[Delivery(c)[2].items[i].h].metadata = Obj(recs[i])

(***************************************************************************)
(* C5 as stated: whenever the raw response includes nextPageToken t, the  *)
(* continuation delivered to the callback is the options with pageToken   *)
(* set to t; without a nextPageToken the continuation is undefined.       *)
(***************************************************************************)
C5_ContinuationWhenTokenPresent ==
  \A c \in CallsOf("getProjects") :
    (Succeeded(c) /\ calls[c].cbs # <<>>) =>
      LET o == OptionsArg(c, 1).f
          f == RespOf(c).f
      IN  IF "nextPageToken" \in DOMAIN f
          THEN /\ Delivery(c)[3].type = "object"
               /\ DOMAIN Delivery(c)[3].f = DOMAIN o \cup {"pageToken"}
               /\ Delivery(c)[3].f["pageToken"] = f["nextPageToken"]
               /\ \A k \in DOMAIN o \ {"pageToken"} : Delivery(c)[3].f[k] = o[k]
          ELSE Delivery(c)[3] = Undefined

(***************************************************************************)
(* C5 amended: on a successful response with a non-empty nextPageToken t  *)
(* the continuation delivered to the callback is the options with         *)
(* pageToken set to t (every other field kept); when the token is missing *)
(* or empty the continuation is undefined, not an empty object.           *)
(***************************************************************************)
C5_Continuation ==
  \A c \in CallsOf("getProjects") :
    (Succeeded(c) /\ calls[c].cbs # <<>>) =>
      LET o == OptionsArg(c, 1).f
          f == RespOf(c).f
      IN  IF "nextPageToken" \in DOMAIN f /\ f["nextPageToken"] # ""
          THEN /\ Delivery(c)[3].type = "object"
               /\ DOMAIN Delivery(c)[3].f = DOMAIN o \cup {"pageToken"}
               /\ Delivery(c)[3].f["pageToken"] = f["nextPageToken"]
               /\ \A k \in DOMAIN o \ {"pageToken"} : Delivery(c)[3].f[k] = o[k]
          ELSE Delivery(c)[3] = Undefined

C5_Witness ==
  \E c \in CallsOf("getProjects") :
    /\ Succeeded(c)
    /\ calls[c].cbs # <<>>
    /\ "pageToken" \in DOMAIN OptionsArg(c, 1).f
    /\ "nextPageToken" \in DOMAIN RespOf(c).f
    /\ RespOf(c).f["nextPageToken"] = "t1"

(***************************************************************************)
(* C6: when the getProjects request completes with an error the callback  *)
(* receives (err, null, null, resp) and no Project is constructed.        *)
(***************************************************************************)
C6_GetProjectsError ==
  \A c \in CallsOf("getProjects") :
    Failed(c) =>
      /\ DeliveredOnce(c)
      /\ Delivery(c) = <<calls[c].completion[1], Null, Null, RespOf(c)>>
      /\ MadeBy(c) = {}

C6_Witness ==
  \E c \in CallsOf("getProjects") :
    /\ Failed(c)
    /\ calls[c].cbs # <<>>
    /\ "projects" \in DOMAIN RespOf(c).f
    /\ RespOf(c).f["projects"] # <<>>

(***************************************************************************)
(* C7: for every non-empty id p, resource.project(p) returns at once a    *)
(* Project (not a promise) whose id is p and whose parent is that         *)
(* Resource, and issues no request.                                        *)
(***************************************************************************)
C7_ProjectFactory ==
  \A c \in CallsOf("project") :
    (calls[c].args # <<>> /\ Truthy(calls[c].args[1])) =>
      /\ calls[c].status = "returned"
      /\ IsHandle(calls[c].ret, "Project")
      /\ handles[calls[c].ret.h].id = calls[c].args[1]
      /\ handles[calls[c].ret.h].parent = calls[c].self
      /\ RequestsOf(c) = {}
      /\ Len(requests) = Cardinality(CallsOf("createProject"))

C7_Witness ==
  \E c \in CallsOf("project") :
    /\ calls[c].args = <<Str("p1")>>
    /\ calls[c].self = "r2"
    /\ calls[c].status = "returned"

(***************************************************************************)
(* C8: resource.project() with no id or an empty id returns a Project for *)
(* the Resource's default project id when one is configured, and          *)
(* otherwise throws 'A project ID is required.', making no object and     *)
(* issuing no request.                                                     *)
(***************************************************************************)
C8_ProjectDefault ==
  \A c \in CallsOf("project") :
    (calls[c].args = <<>> \/ ~Truthy(calls[c].args[1])) =>
      /\ RequestsOf(c) = {}
      /\ IF Truthy(projectId(calls[c].self))
         THEN /\ calls[c].status = "returned"
              /\ IsHandle(calls[c].ret, "Project")
              /\ handles[calls[c].ret.h].id = projectId(calls[c].self)
              /\ handles[calls[c].ret.h].parent = calls[c].self
         ELSE /\ calls[c].status = "threw"
              /\ calls[c].thrown = Throw("A project ID is required.")
              /\ calls[c].ret = Undefined
              /\ MadeBy(c) = {}

C8_Witness ==
  /\ \E c \in CallsOf("project") :
       calls[c].args = <<>> /\ calls[c].status = "threw"
  /\ \E c \in CallsOf("project") :
       calls[c].args = <<Str("")>> /\ calls[c].status = "returned"

(***************************************************************************)
(* C9: resource.operation(name) returns an Operation bound to this        *)
(* Resource with id name for every non-empty name, and throws (no object, *)
(* no request) when the name is empty or missing.                          *)
(***************************************************************************)
C9_OperationFactory ==
  \A c \in CallsOf("operation") :
    /\ RequestsOf(c) = {}
    /\ IF calls[c].args # <<>> /\ Truthy(calls[c].args[1])
       THEN /\ calls[c].status = "returned"
            /\ IsHandle(calls[c].ret, "Operation")
            /\ handles[calls[c].ret.h].id = calls[c].args[1]
            /\ handles[calls[c].ret.h].parent = calls[c].self
       ELSE /\ calls[c].status = "threw"
            /\ calls[c].thrown =
                 Throw("A name must be specified for an operation.")
            /\ calls[c].ret = Undefined
            /\ MadeBy(c) = {}

C9_Witness ==
  /\ \E c \in CallsOf("operation") :
       calls[c].args = <<Str("op1")>> /\ calls[c].status = "returned"
  /\ \E c \in CallsOf("operation") :
       calls[c].args = <<Str("")>> /\ calls[c].status = "threw"

(***************************************************************************)
(* C10: getIamPolicy issues exactly one POST to :getIamPolicy with body   *)
(* {options} (the caller's options object, or {} when none was passed)    *)
(* and hands the request layer's (err, resp) to the callback unmodified.  *)
(***************************************************************************)
C10_GetIamPolicy ==
  \A c \in CallsOf("getIamPolicy") :
    /\ Cardinality(RequestsOf(c)) = 1
    /\ \A i \in RequestsOf(c) :
         /\ requests[i].self = calls[c].self
         /\ requests[i].reqOpts =
              [method |-> "POST", uri |-> ":getIamPolicy",
               body |-> [options |-> OptionsArg(c, 1)]]
    /\ Completed(c) =>
         /\ DeliveredOnce(c)
         /\ Delivery(c) = calls[c].completion

C10_Witness ==
  \E c \in CallsOf("getIamPolicy") :
    /\ Completed(c)
    /\ Failed(c)
    /\ RespOf(c) # Obj(<<>>)
    /\ calls[c].cbs # <<>>
    /\ calls[c].args = <<UserCallback>>

(***************************************************************************)
(* Vocabulary for the Project RPCs, which are exercised both through the  *)
(* promise wrapper and directly.                                           *)
(***************************************************************************)
\* the Resource methods are always called through the wrapper
ViaWrapper(c) ==
  IF "wrapped" \in DOMAIN calls[c] THEN calls[c].wrapped ELSE TRUE

NoCallback(c) == ~HasCallback(calls[c].args)

\* who the method body hands the results to when the caller passed no
\* callback and the body's own default is dflt
BodyReceiver(c, dflt) ==
  IF HasCallback(calls[c].args) THEN calls[c].args[Len(calls[c].args)]
  ELSE IF ViaWrapper(c) THEN PromiseCallback
  ELSE dflt

\* the request layer's results went once, unchanged, to fn
HandedUnchanged(c, fn) ==
  /\ calls[c].status = "done"
  /\ calls[c].thrown = Undefined
  /\ Len(calls[c].cbs) = 1
  /\ calls[c].cbs[1].fn = fn
  /\ calls[c].cbs[1].args = calls[c].completion

\* exactly one request, on the project itself, with these options
OneRequest(c, reqOpts) ==
  /\ Cardinality(RequestsOf(c)) = 1
  /\ \A i \in RequestsOf(c) :
       /\ requests[i].self = calls[c].self
       /\ requests[i].reqOpts = reqOpts

(***************************************************************************)
(* C11: getAncestry issues exactly one POST to :getAncestry with no body, *)
(* and the callback or promise receives the request layer's error and the *)
(* server's ancestor chain verbatim: same elements in the same order.     *)
(***************************************************************************)
C11_GetAncestry ==
  \A c \in CallsOf("getAncestry") :
    /\ OneRequest(c, [method |-> "POST", uri |-> ":getAncestry"])
    /\ Completed(c) =>
         /\ HandedUnchanged(c, BodyReceiver(c, Noop))
         /\ Delivery(c)[1] = calls[c].completion[1]
         /\ Delivery(c)[2].f["ancestor"] = RespOf(c).f["ancestor"]

C11_Witness ==
  \E c \in CallsOf("getAncestry") :
    /\ Succeeded(c)
    /\ calls[c].cbs # <<>>
    /\ calls[c].cbs[1].fn = PromiseCallback
    /\ Len(Delivery(c)[2].f["ancestor"]) = 2
    /\ Delivery(c)[2].f["ancestor"][1].resourceId.type = "project"

(***************************************************************************)
(* C12: getEffectiveOrgPolicy(constraint, callback) issues exactly one    *)
(* POST to :getEffectiveOrgPolicy whose body is {constraint} with the     *)
(* caller's constraint, and the callback receives the request layer's     *)
(* error and response unchanged.                                          *)
(***************************************************************************)
C12_GetEffectiveOrgPolicy ==
  \A c \in CallsOf("getEffectiveOrgPolicy") :
    /\ OneRequest(c, [method |-> "POST", uri |-> ":getEffectiveOrgPolicy",
                      body |-> [constraint |-> calls[c].args[1]]])
    /\ (Completed(c) /\ HasCallback(calls[c].args)) =>
         HandedUnchanged(c, calls[c].args[2])

C12_Witness ==
  \E c \in CallsOf("getEffectiveOrgPolicy") :
    /\ Succeeded(c)
    /\ calls[c].args[1] \in Constraints
    /\ HasCallback(calls[c].args)
    /\ calls[c].cbs # <<>>
    /\ Delivery(c)[2] \in OrgPolicies
    /\ \E i \in RequestsOf(c) : "body" \in DOMAIN requests[i].reqOpts

(***************************************************************************)
(* C13: restore(callback) issues exactly one POST to :undelete with no    *)
(* body, and on completion the callback receives the request layer's      *)
(* error and raw response unchanged.                                      *)
(***************************************************************************)
C13_Restore ==
  \A c \in CallsOf("restore") :
    /\ OneRequest(c, [method |-> "POST", uri |-> ":undelete"])
    /\ (Completed(c) /\ HasCallback(calls[c].args)) =>
         HandedUnchanged(c, calls[c].args[1])

C13_Witness ==
  \E c \in CallsOf("restore") :
    /\ Failed(c)
    /\ calls[c].args = <<UserCallback>>
    /\ calls[c].cbs # <<>>
    /\ Delivery(c)[1] = Err("e1")
    /\ RequestsOf(c) # {}

(***************************************************************************)
(* C14: restore() with zero arguments never throws, neither at the call   *)
(* nor when its request completes, with or without an error, and the POST *)
(* to :undelete is still issued.                                          *)
(***************************************************************************)
C14_RestoreNoArgs ==
  \A c \in CallsOf("restore") :
    calls[c].args = <<>> =>
      /\ calls[c].status # "threw"
      /\ calls[c].thrown = Undefined
      /\ \E i \in RequestsOf(c) :
           /\ requests[i].reqOpts.method = "POST"
           /\ requests[i].reqOpts.uri = ":undelete"
      /\ Completed(c) => calls[c].status = "done"

C14_Witness ==
  \E c \in CallsOf("restore") :
    /\ calls[c].args = <<>>
    /\ ~ViaWrapper(c)
    /\ Failed(c)
    /\ calls[c].status = "done"

(***************************************************************************)
(* C15: getAvailableOrgPolicyConstraints issues one POST to               *)
(* :listAvailableOrgPolicyConstraints with the options as query string    *)
(* and, like getProjects, hands its callback the list of Constraint       *)
(* records, a continuation query (the options plus the response's         *)
(* nextPageToken, absent when there is none) and the raw list response.   *)
(***************************************************************************)
C15_ConstraintsPaged ==
  \A c \in CallsOf("getAvailableOrgPolicyConstraints") :
    /\ OneRequest(c, [method |-> "POST",
                      uri |-> ":listAvailableOrgPolicyConstraints",
                      qs |-> OptionsArg(c, 1)])
    /\ (Succeeded(c) /\ calls[c].cbs # <<>>) =>
         /\ Len(Delivery(c)) = 4
         /\ Delivery(c)[1] = Null
         /\ Delivery(c)[2].type = "array"
         /\ Delivery(c)[2].items = RespOf(c).f["constraints"]
         /\ Delivery(c)[3] = nextQuery(OptionsArg(c, 1), RespOf(c))
         /\ Delivery(c)[4] = RespOf(c)

(***************************************************************************)
(* C16: getOrgPolicy(constraint, callback?) issues exactly one POST to    *)
(* :getOrgPolicy with body {constraint}; a callback receives the request  *)
(* layer's (error, response) unchanged, and without one a no-op takes its *)
(* place, so completion never throws.                                     *)
(***************************************************************************)
C16_GetOrgPolicy ==
  \A c \in CallsOf("getOrgPolicy") :
    /\ OneRequest(c, [method |-> "POST", uri |-> ":getOrgPolicy",
                      body |-> [constraint |-> calls[c].args[1]]])
    /\ Completed(c) =>
         /\ calls[c].status # "threw"
         /\ HandedUnchanged(c, BodyReceiver(c, Noop))

C16_Witness ==
  \E c \in CallsOf("getOrgPolicy") :
    /\ Failed(c)
    /\ ~ViaWrapper(c)
    /\ NoCallback(c)
    /\ calls[c].status = "done"
    /\ calls[c].cbs # <<>>
    /\ calls[c].cbs[1].fn = Noop

(***************************************************************************)
(* C17: every asynchronous method of Resource and Project called with the *)
(* callback omitted returns a promise that settles exactly once, rejected *)
(* with the request layer's error when the request fails and resolved     *)
(* otherwise; a supplied callback receives the error as first argument.   *)
(***************************************************************************)
C17_PromiseSettles ==
  \A c \in 1..Len(calls) :
    (Promisified(calls[c].method) /\ ViaWrapper(c)) =>
      /\ NoCallback(c) => calls[c].ret = Promise
      /\ Completed(c) =>
           /\ Len(calls[c].cbs) = 1
           /\ calls[c].cbs[1].fn = Receiver(c)
           /\ Delivery(c)[1] = calls[c].completion[1]

(***************************************************************************)
(* C18 as stated: when restore is called without a callback, an error     *)
(* from the request reaches nobody but the no-op and the caller is        *)
(* returned no promise.                                                    *)
(***************************************************************************)
C18_RestoreErrorSuppressed ==
  \A c \in CallsOf("restore") :
    NoCallback(c) =>
      /\ calls[c].ret # Promise
      /\ Failed(c) =>
           \A i \in 1..Len(calls[c].cbs) : calls[c].cbs[i].fn = Noop

(***************************************************************************)
(* C18: when restore is called without a callback through the promise     *)
(* wrapper, the caller is returned a promise and the request's error and  *)
(* response go to that promise; the no-op takes the results, and nothing  *)
(* is returned, only when the method body is called without the wrapper.  *)
(***************************************************************************)
C18_RestoreNoCallback ==
  \A c \in CallsOf("restore") :
    NoCallback(c) =>
      /\ ViaWrapper(c) =>
           /\ calls[c].ret = Promise
           /\ Completed(c) => HandedUnchanged(c, PromiseCallback)
      /\ ~ViaWrapper(c) =>
           /\ calls[c].ret = Undefined
           /\ Completed(c) => HandedUnchanged(c, Noop)

C18_Witness ==
  \E c \in CallsOf("restore") :
    /\ NoCallback(c)
    /\ ViaWrapper(c)
    /\ Failed(c)
    /\ calls[c].ret = Promise
    /\ calls[c].cbs # <<>>
    /\ calls[c].cbs[1].fn = PromiseCallback
    /\ Delivery(c)[1] = Err("e1")

(***************************************************************************)
(* C19: project.create() on a handle with id p issues the POST /projects  *)
(* request of createProject(p) on the parent Resource, and ends as that   *)
(* createProject call ends on the same completion: the same error shape,  *)
(* the same result shape.                                                  *)
(***************************************************************************)
\* how a call ended: the kind of each handle delivered, other values as is
Outcome(c) ==
  [status |-> calls[c].status,
   thrown |-> calls[c].thrown,
   args |-> IF calls[c].cbs = <<>> THEN <<>>
            ELSE [i \in 1..Len(Delivery(c)) |->
                    IF Delivery(c)[i].type = "handle"
                    THEN [kind |-> handles[Delivery(c)[i].h].kind]
                    ELSE Delivery(c)[i]]]

\* createProject(p) on resource r, with or without a callback
PlainCreateProject(d, r, p) ==
  /\ calls[d].self = r
  /\ calls[d].args \in PlainCreateArgs
  /\ calls[d].args[1] = p

C19_CreateDelegates ==
  \A c \in CallsOf("create") :
    LET r == handles[calls[c].self.h].parent
        p == handles[calls[c].self.h].id
    IN  /\ Cardinality(RequestsOf(c)) = 1
        /\ \A i \in RequestsOf(c) :
             /\ requests[i].self = r
             /\ requests[i].reqOpts =
                  [method |-> "POST", uri |-> "/projects",
                   json |-> [projectId |-> p.v]]
        /\ \A d \in CallsOf("createProject") :
             PlainCreateProject(d, r, p) =>
               /\ \A i \in RequestsOf(c), j \in RequestsOf(d) :
                    /\ requests[i].self = requests[j].self
                    /\ requests[i].reqOpts = requests[j].reqOpts
               /\ (Completed(c) /\ calls[c].completion = calls[d].completion) =>
                    Outcome(c) = Outcome(d)

C19_Witness ==
  \E c \in CallsOf("create"), d \in CallsOf("createProject") :
    /\ PlainCreateProject(d, handles[calls[c].self.h].parent,
                          handles[calls[c].self.h].id)
    /\ handles[calls[c].self.h].parent = "r2"
    /\ Succeeded(c)
    /\ calls[c].completion = calls[d].completion
    /\ calls[c].cbs # <<>>
    /\ Len(Delivery(c)) = 4
    /\ Delivery(c)[2] = calls[c].self

(***************************************************************************)
(* C20: manual pagination from options o, re-calling getProjects with     *)
(* each continuation until none is returned: one request per page;        *)
(* request k+1 carries page k's nextPageToken and the other fields of o   *)
(* unchanged; the chain ends after the first response without a token;    *)
(* and the delivered lists, concatenated, are the server's records in     *)
(* order.                                                                  *)
(***************************************************************************)
\* the calls of the chain from call c on, in order
RECURSIVE ChainFrom(_)
ChainFrom(c) ==
  IF \E d \in 1..Len(calls) : IsChainCall(d) /\ calls[d].from = c
  THEN <<c>> \o ChainFrom(CHOOSE d \in 1..Len(calls) :
                             IsChainCall(d) /\ calls[d].from = c)
  ELSE <<c>>

QueryOf(c) == requests[CHOOSE i \in RequestsOf(c) : TRUE].reqOpts.qs

\* the records delivered by the calls ch[k], ch[k+1], ..., concatenated
RECURSIVE DeliveredFrom(_, _)
DeliveredFrom(ch, k) ==
  IF k > Len(ch) THEN <<>>
  ELSE (IF calls[ch[k]].cbs = <<>> \/ Delivery(ch[k])[2].type # "array"
        THEN <<>>
        ELSE [i \in 1..Len(Delivery(ch[k])[2].items) |->
                handles[Delivery(ch[k])[2].items[i].h].metadata.f])
       \o DeliveredFrom(ch, k + 1)

\* the number of pages the server holds for query o
PagesOf(o) ==
  LET n == Len(ServerRecords(o))
      size == IF "pageSize" \in DOMAIN o.f THEN o.f["pageSize"] ELSE n
  IN  IF n = 0 THEN 1 ELSE (n + size - 1) \div size

C20_ManualPagination ==
  \A s \in ChainStarts :
    LET ch == ChainFrom(s)
        o == calls[s].args[1]
    IN  /\ \A k \in 1..Len(ch) : Cardinality(RequestsOf(ch[k])) = 1
        /\ QueryOf(s) = o
        /\ \A k \in 1..(Len(ch) - 1) :
             /\ "nextPageToken" \in DOMAIN RespOf(ch[k]).f
             /\ DOMAIN QueryOf(ch[k + 1]).f = DOMAIN o.f \cup {"pageToken"}
             /\ QueryOf(ch[k + 1]).f["pageToken"] =
                  RespOf(ch[k]).f["nextPageToken"]
             /\ \A key \in DOMAIN o.f \ {"pageToken"} :
                  QueryOf(ch[k + 1]).f[key] = o.f[key]
        /\ (\A k \in 1..Len(ch) : ~Pending(ch[k])) =>
             /\ "nextPageToken" \notin DOMAIN RespOf(ch[Len(ch)]).f
             /\ Len(ch) = PagesOf(o)
             /\ DeliveredFrom(ch, 1) = ServerRecords(o)

(***************************************************************************)
(* C27: for every completion of a createProject or getProjects request,   *)
(* error or success and whatever the response contains, the caller's      *)
(* callback is invoked exactly once and no exception escapes the          *)
(* completion handler.                                                     *)
(***************************************************************************)
C27_HandlerNeverThrows ==
  \A c \in CallsOf("createProject") \cup CallsOf("getProjects") :
    Completed(c) =>
      /\ calls[c].status # "threw"
      /\ calls[c].thrown = Undefined
      /\ Len(calls[c].cbs) = 1
      /\ calls[c].cbs[1].fn = Receiver(c)

(***************************************************************************)
(* C28: on error createProject hands the raw response to the callback in  *)
(* the fourth position, where it is on success, and the project and       *)
(* operation positions carry no value.                                     *)
(***************************************************************************)
C28_ErrorResponsePosition ==
  \A c \in CallsOf("createProject") :
    (Failed(c) /\ calls[c].cbs # <<>>) =>
      /\ Len(Delivery(c)) = 4
      /\ Delivery(c)[1] = calls[c].completion[1]
      /\ Delivery(c)[2] \in {Null, Undefined}
      /\ Delivery(c)[3] \in {Null, Undefined}
      /\ Delivery(c)[4] = RespOf(c)

(***************************************************************************)
(* C22: with the promise wrapper bypassed and no callback supplied,       *)
(* restore, getOrgPolicy and getAncestry complete silently (the request's *)
(* error goes to the no-op and nothing is thrown), whereas getIamPolicy   *)
(* and getEffectiveOrgPolicy fail by invoking a missing callback, and     *)
(* only when the request completes, after it has been issued.             *)
(***************************************************************************)
DefaultsToNoop == {"restore", "getOrgPolicy", "getAncestry"}

CallbackRequired == {"getIamPolicy", "getEffectiveOrgPolicy"}

C22_NoopAsymmetry ==
  \A c \in 1..Len(calls) :
    (~ViaWrapper(c) /\ NoCallback(c)) =>
      /\ calls[c].method \in DefaultsToNoop =>
           /\ calls[c].status # "threw"
           /\ calls[c].thrown = Undefined
           /\ Completed(c) => HandedUnchanged(c, Noop)
      /\ calls[c].method \in CallbackRequired =>
           /\ Cardinality(RequestsOf(c)) = 1
           /\ ~Completed(c) => calls[c].status = "pending"
           /\ Completed(c) =>
                /\ calls[c].status = "threw"
                /\ calls[c].thrown = Throw("callback is not a function")
                /\ calls[c].cbs = <<>>

C22_Witness ==
  \E c \in CallsOf("getIamPolicy") :
    /\ ~ViaWrapper(c)
    /\ NoCallback(c)
    /\ Failed(c)
    /\ calls[c].status = "threw"
    /\ RequestsOf(c) # {}

(***************************************************************************)
(* C23: each invocation of createProject, getProjects, getIamPolicy,      *)
(* restore, getAncestry, getEffectiveOrgPolicy, getOrgPolicy or           *)
(* getAvailableOrgPolicyConstraints issues exactly one request and has    *)
(* one completion; after an error completion no further request is        *)
(* issued (no retry), and the callback is invoked at most once.           *)
(***************************************************************************)
SingleRequestMethods ==
  {"createProject", "getProjects", "getIamPolicy", "restore", "getAncestry",
   "getEffectiveOrgPolicy", "getOrgPolicy", "getAvailableOrgPolicyConstraints"}

C23_OneRequestPerCall ==
  /\ \A c \in 1..Len(calls) :
       calls[c].method \in SingleRequestMethods =>
         /\ Cardinality(RequestsOf(c)) = 1
         /\ Len(calls[c].cbs) <= 1
         /\ calls[c].cbs # <<>> => Completed(c)
  /\ \A i \in 1..Len(requests) :
       /\ requests[i].call \in 1..Len(calls)
       /\ calls[requests[i].call].method \in SingleRequestMethods

C23_Witness ==
  \E c \in CallsOf("restore"), d \in CallsOf("createProject") :
    /\ Failed(c)
    /\ Succeeded(d)
    /\ calls[c].cbs # <<>>
    /\ calls[d].cbs # <<>>
    /\ Len(requests) = 2

(***************************************************************************)
(* C24: with any number of calls outstanding on the same or different     *)
(* handles, completing in any order, a completion touches only its own    *)
(* call, whose callback receives the error and response of its own        *)
(* request; no call waits for, is merged with, or is altered by another.  *)
(***************************************************************************)
\* call d was answered in this step
Answered(d) == calls'[d] # calls[d]

C24_IndependentCalls ==
  [][\A d \in 1..Len(calls) :
       Answered(d) =>
         /\ Pending(d)
         /\ \A e \in 1..Len(calls) : e # d => calls'[e] = calls[e]
         /\ requests' = requests
         /\ calls'[d].completion # <<>>
         /\ calls'[d].cbs # <<>> =>
              /\ Len(calls'[d].cbs) = 1
              /\ calls'[d].cbs[1].args[1] = calls'[d].completion[1]
              /\ calls'[d].cbs[1].args[Len(calls'[d].cbs[1].args)] =
                   calls'[d].completion[2]]_vars

\* two calls on one project outstanding together, the later answered first
C24_Witness ==
  \E c \in CallsOf("getIamPolicy"), d \in CallsOf("getIamPolicy") :
    /\ c < d
    /\ calls[c].self = calls[d].self
    /\ Pending(c)
    /\ Failed(d)
    /\ calls[d].cbs # <<>>
    /\ Delivery(d)[1] = Err("e1")

(***************************************************************************)
(* C25: getIamPolicy, getAncestry, restore, getEffectiveOrgPolicy,        *)
(* getOrgPolicy and getAvailableOrgPolicyConstraints leave the Project    *)
(* handle's id and metadata as they were, on success and on error, and    *)
(* every call, a repeated one included, issues a request of its own       *)
(* rather than being answered from an earlier response.                   *)
(***************************************************************************)
ReadOnlyMethods ==
  {"getIamPolicy", "getAncestry", "restore", "getEffectiveOrgPolicy",
   "getOrgPolicy", "getAvailableOrgPolicyConstraints"}

\* this step is the call of a method
Called(m) == Len(calls') = Len(calls) + 1 /\ calls'[Len(calls')].method = m

C25_HandleUntouched ==
  [][/\ \A d \in 1..Len(calls) :
          (Answered(d) /\ calls[d].method \in ReadOnlyMethods) =>
            /\ handles' = handles
            /\ requests' = requests
     /\ \A m \in ReadOnlyMethods :
          Called(m) =>
            /\ handles' = handles
            /\ calls'[Len(calls')].status = "pending"
            /\ calls'[Len(calls')].completion = <<>>
            /\ Len(requests') = Len(requests) + 1
            /\ requests'[Len(requests')].call = Len(calls')]_vars

\* the same call made twice on one project, both answered
C25_Witness ==
  \E c \in CallsOf("getOrgPolicy"), d \in CallsOf("getOrgPolicy") :
    /\ c < d
    /\ calls[c].self = calls[d].self
    /\ calls[c].args = calls[d].args
    /\ Succeeded(c)
    /\ Failed(d)
    /\ RequestsOf(c) # RequestsOf(d)
    /\ handles[calls[c].self.h].metadata = Obj(<<>>)
    /\ handles[calls[c].self.h].id = Str("p1")

(***************************************************************************)
(* C26: handles are never cached or shared.  Every resource.project(p)    *)
(* call and every record mapped by getProjects or createProject yields a  *)
(* handle that did not exist before; a handle's id never changes; a       *)
(* deleted handle is still a Project with its id; and the metadata given  *)
(* to a handle built by getProjects leaves every handle obtained earlier, *)
(* for the same id too, as it was.                                         *)
(***************************************************************************)
\* the handles among the values a call was handed or returned in this step
HandlesGiven(d) ==
  LET a == IF calls'[d].cbs = <<>> THEN <<>> ELSE calls'[d].cbs[1].args
      direct == {a[i].h : i \in {j \in 1..Len(a) : a[j].type = "handle"}}
      listed == UNION {{a[i].items[k].h : k \in 1..Len(a[i].items)} :
                         i \in {j \in 1..Len(a) : a[j].type = "array"}}
      returned == IF calls'[d].ret.type = "handle" THEN {calls'[d].ret.h}
                  ELSE {}
  IN  direct \cup listed \cup returned

C26_FreshHandles ==
  [][/\ Len(handles') >= Len(handles)
     /\ \A h \in 1..Len(handles) : handles'[h] = handles[h]
     /\ \A d \in 1..Len(calls') :
          ((d > Len(calls) \/ Answered(d))
             /\ calls'[d].method \in {"project", "getProjects", "createProject"})
            => /\ HandlesGiven(d) \subseteq (Len(handles) + 1)..Len(handles')
               /\ \A h \in HandlesGiven(d) : handles'[h].by = d
               /\ calls'[d].cbs # <<>> /\ calls'[d].cbs[1].args[2].type = "array"
                    => Cardinality(HandlesGiven(d)) =
                         Len(calls'[d].cbs[1].args[2].items)
     /\ \A c \in CallsOf("delete") :
          Completed(c) =>
            /\ IsProject(calls[c].self.h)
            /\ handles'[calls[c].self.h].id = handles[calls[c].self.h].id]_vars

\* a project obtained from the factory, then deleted, then used again
C26_UsedAfterDelete ==
  \E c \in CallsOf("delete"), d \in CallsOf("restore") :
    /\ c < d
    /\ calls[c].self = calls[d].self
    /\ Succeeded(c)
    /\ calls[c].cbs # <<>>
    /\ RequestsOf(d) # {}
    /\ handles[calls[c].self.h].id = Str("p1")

\* the list gave a second handle for an id the factory had served before
C26_SameIdTwice ==
  \E g \in 1..Len(handles), h \in 1..Len(handles) :
    /\ g < h
    /\ handles[g].id = handles[h].id
    /\ handles[g].parent = handles[h].parent
    /\ calls[handles[g].by].method = "project"
    /\ calls[handles[h].by].method = "getProjects"
    /\ handles[g].metadata = Obj(<<>>)
    /\ handles[h].metadata # Obj(<<>>)

(***************************************************************************)
(* C29: getProjects and createProject never modify the options object of  *)
(* the caller.  The arguments of a call stay what they were at every      *)
(* step; the createProject body is the options merged with the id while   *)
(* the options keep their own fields; a continuation carries the token of *)
(* the response while the options still carry the old token, so a second  *)
(* call with the same options sends the request of the first.             *)
(***************************************************************************)
OptionsOf(c) ==
  IF calls[c].method = "getProjects"
  THEN getProjectsOptions(InnerArgs("getProjects", calls[c].args))
  ELSE createProjectOptions(InnerArgs("createProject", calls[c].args))

Continuation(c) == Delivery(c)[3]

C29_OptionsUntouched ==
  [][/\ \A c \in 1..Len(calls) : calls'[c].args = calls[c].args
     /\ \A c \in CallsOf("createProject") :
          \A i \in RequestsOf(c) :
            /\ requests'[i].reqOpts.json =
                 ObjectAssign(Fields(OptionsOf(c)),
                              [projectId |-> calls'[c].args[1].v])
            /\ requests'[i].reqOpts.json # Fields(OptionsOf(c))
     /\ \A c \in CallsOf("getProjects") :
          /\ \A i \in RequestsOf(c) : requests'[i].reqOpts.qs = OptionsOf(c)
          /\ (calls'[c].cbs # <<>> /\ Succeeded(c)
                /\ Truthy(Get(calls'[c].completion[2].f, "nextPageToken")))
               => /\ calls'[c].cbs[1].args[3] =
                       Obj(ObjectAssign(Fields(OptionsOf(c)),
                         [pageToken |->
                            calls'[c].completion[2].f["nextPageToken"]]))
                  /\ calls'[c].cbs[1].args[3] # OptionsOf(c)
          /\ \A d \in CallsOf("getProjects") :
               calls[d].args = calls[c].args
                 => \A i \in RequestsOf(c), j \in RequestsOf(d) :
                      requests'[i].reqOpts = requests'[j].reqOpts]_vars

\* options with token t0 answered with token t1, then sent again unchanged
C29_Witness ==
  \E c \in CallsOf("getProjects"), d \in CallsOf("getProjects") :
    /\ c < d
    /\ DeliveredOnce(c)
    /\ Get(Fields(OptionsOf(c)), "pageToken") = Str("t0")
    /\ Continuation(c).type = "object"
    /\ Get(Fields(Continuation(c)), "pageToken") = Str("t1")
    /\ calls[d].args = calls[c].args
    /\ QueryOf(d) = QueryOf(c)
    /\ Get(Fields(QueryOf(d)), "pageToken") = Str("t0")

(***************************************************************************)
(* C30: a getProjects response whose nextPageToken is present but empty   *)
(* is the last page of its chain.  The callback gets no continuation, no  *)
(* call follows the call that was answered so, and no request of a chain  *)
(* carries an empty pageToken.                                             *)
(***************************************************************************)
EmptyToken(c) ==
  /\ Succeeded(c)
  /\ Get(RespOf(c).f, "nextPageToken") = Str("")

C30_EmptyTokenEndsChain ==
  /\ \A c \in 1..Len(calls) :
       (IsChainCall(c) /\ EmptyToken(c))
         => /\ calls[c].cbs # <<>> => Continuation(c) = Undefined
            /\ \A d \in 1..Len(calls) : IsChainCall(d) => calls[d].from # c
  /\ \A i \in 1..Len(requests) :
       Get(requests[i].reqOpts.qs.f, "pageToken") # Str("")

\* a chain two pages long whose second page, not the server's last, came
\* with an empty token and ended it
C30_Witness ==
  \E c \in 1..Len(calls), d \in 1..Len(calls) :
    /\ IsChainCall(c) /\ IsChainCall(d)
    /\ calls[d].from = c
    /\ EmptyToken(d)
    /\ DeliveredOnce(d)
    /\ Len(Delivery(d)[2].items) = 1
    /\ Len(DeliveredFrom(ChainFrom(c), 1)) < Len(ServerRecords(QueryOf(c)))

(***************************************************************************)
(* C21: automatic pagination is sequential and bounded.  Of the pages     *)
(* requested for one caller's call at most one is outstanding; a page is  *)
(* requested only after the previous page was answered and delivered a    *)
(* continuation, and is requested with that continuation; no page follows *)
(* a page that delivered none; the pages never outnumber maxApiCalls and  *)
(* the results never outnumber maxResults when those caps are given.      *)
(***************************************************************************)
C21_SequentialBounded ==
  \A k \in AutoStarts :
    LET o == calls[k].args[1]
    IN  /\ Cardinality({c \in PagesFor(k) : Pending(c)}) <= 1
        /\ \A d \in PagesFor(k) :
             calls[d].prev # 0 =>
               /\ calls[d].prev \in PagesFor(k)
               /\ calls[d].prev < d
               /\ DeliveredOnce(calls[d].prev)
               /\ Truthy(Continuation(calls[d].prev))
               /\ QueryOf(d) = Continuation(calls[d].prev)
               /\ \A e \in PagesFor(k) : calls[e].prev = calls[d].prev => e = d
        /\ \A c \in PagesFor(k) :
             (Completed(c) /\ (calls[c].cbs = <<>>
                                 \/ ~Truthy(Continuation(c))))
               => \A d \in PagesFor(k) : calls[d].prev # c
        /\ Cap(o, "maxApiCalls") >= 0
             => Cardinality(PagesFor(k)) <= Cap(o, "maxApiCalls")
        /\ Cap(o, "maxResults") >= 0
             => /\ Len(calls[k].results) <= Cap(o, "maxResults")
                /\ \A i \in 1..Len(calls[k].cbs) :
                     Len(calls[k].cbs[i].args) = 2
                       => Len(calls[k].cbs[i].args[2].items)
                            <= Cap(o, "maxResults")
        /\ Len(calls[k].cbs) <= 1

\* a chain that maxApiCalls ended after its second page, which had
\* delivered a continuation
C21_Witness ==
  \E k \in AutoStarts :
    /\ Cap(calls[k].args[1], "maxApiCalls") = 2
    /\ Cardinality(PagesFor(k)) = 2
    /\ DeliveredOnce(k)
    /\ Len(Delivery(k)) = 2
    /\ Len(Delivery(k)[2].items) = 2
    /\ \E c \in PagesFor(k) :
         calls[c].prev # 0 /\ DeliveredOnce(c) /\ Truthy(Continuation(c))

\* a chain whose second page was cut to fit maxResults
C21_Truncated ==
  \E k \in AutoStarts, c \in 1..Len(calls) :
    /\ c \in PagesFor(k)
    /\ Cap(calls[k].args[1], "maxResults") = 2
    /\ calls[c].prev # 0
    /\ DeliveredOnce(c)
    /\ Delivery(c)[2].type = "array"
    /\ Len(Delivery(c)[2].items) = 2
    /\ DeliveredOnce(k)
    /\ Len(Delivery(k)) = 2
    /\ Len(Delivery(k)[2].items) = 2

====
